---- MODULE Spec2Model ----
(***************************************************************************)
(* mesos-ssh: the bounded-concurrency scheduler of main(), the per-host    *)
(* SSH session (Connect / Run / runCommand / writePass / Close), the       *)
(* RemoteIO rendezvous channels and the two IOCollector strategies         *)
(* (RegularIOCollector, InterleavedIOCollector).                           *)
(*                                                                         *)
(* Go channels are unbuffered unless stated: a send and its receive are    *)
(* one joint step, enabled when the sender stands at the send and the      *)
(* receiver at a matching receive.  An unrecovered panic in any goroutine  *)
(* ends the whole process (crashed).  Returning from main ends it too, and *)
(* so does log.Fatalf (os.Exit).                                           *)
(***************************************************************************)
EXTENDS Integers, Sequences, FiniteSets, TLC

\* ---------------------------------------------------------------- bounds
NHosts == 2
MaxParallel == 2
MaxChunks == 1
MaxBurst == 2
MaxFeed == 3
MaxData == 2
MaxReads == 4
NCallers == 2
MaxAsk == 2
MaxFiles == 2

AllHosts == 1..NHosts
Streams == {"out", "err"}

\* The nil error value and the error values the transport can hand back.
Nil == "nil"

\* Byte strings are sequences of tokens: "\n" is the newline, "P" stands
\* for the 20 bytes of the sudo prompt marker, "F" for 32 bytes of other
\* output (one full read into sect), any other token is one byte.
NL == "\n"
Marker == "P"
Filler == "F"

\* What the Read after n earlier ones can deliver from the remote's stdout
\* / stderr: a partial line on stdout (under sudo also the prompt), a whole
\* line on stderr; later reads bring other bytes than the first.
ChunkData(c, r, n) ==
  IF r = "out"
  THEN (IF n > 0 THEN { <<"c">> }
        ELSE IF c.Sudo THEN { <<"a">>, <<Marker>> } ELSE { <<"a">> })
  ELSE (IF n > 0 THEN { <<"d", NL>> } ELSE { <<"b", NL>> })

\* Exit statuses a remote command can report.
ExitCodes == {0, 3}

\* The SSHCommand values explored (NewSSHCommand's arguments).  Timeout is
\* "short" when the deadline can pass while the command runs, "long" when
\* it cannot.
Plain == [Sudo |-> FALSE, Pty |-> FALSE, ForwardAgent |-> FALSE, Files |-> 0,
          Timeout |-> "long"]
Commands ==
  { Plain,
    [Plain EXCEPT !.Timeout = "short"],
    [Plain EXCEPT !.Pty = TRUE],
    [Plain EXCEPT !.Sudo = TRUE],
    [Plain EXCEPT !.Files = 1],
    [Plain EXCEPT !.Files = 1, !.Sudo = TRUE],
    [Plain EXCEPT !.ForwardAgent = TRUE] }

VARIABLES
  flagParallel,   \* -m
  flagInterleave, \* -interleave
  cmd,            \* the shared SSHCommand
  nhosts,         \* len(hosts)
  faults,         \* the calls of Run that may return an error in this run
  quota,          \* per stream: the most chunks the remote writes to it
  setupErr,       \* the call of main's set-up that fails in this run, or nil
  mainpc,         \* main goroutine's position
  spawned,        \* hosts whose loop body ran
  primed,         \* tokens main has put into sem
  sem,            \* tokens buffered in the admission channel
  semClosed,      \* close(sem) happened
  wg,             \* main's WaitGroup counter
  crashed,        \* an unrecovered panic ended the process
  task,           \* per host: position of the host goroutine
  sesh,           \* per host: the SSHSession (auth, connection)
  ret,            \* per host: value the task hands to Done
  session,        \* per host: the command sub-session of runCommand
  timer,          \* per host: the time.AfterFunc timer of runCommand
  cmdErr,         \* per host: what session.Run returned
  calls,          \* per host: calls made so far, in order
  relay,          \* per host, per stream: position of the copy goroutine
  chunk,          \* per host, per stream: bytes read, being sent
  nread,          \* per host, per stream: chunks read so far
  wp,             \* per host: writePass's scan state and stdin writes
  proc,           \* per host: position of the collector's process goroutine
  msgs,           \* per host: Regular process's msgs slice
  result,         \* per host: process's result variable
  curStream,      \* per host: interleavedProcessor.curStream
  buf,            \* per host: interleavedProcessor.buf
  pend,           \* per host: lines the processor still has to send
  gtimer,         \* per host: the grace timer t of process()
  got,            \* per host: events received from remote.collector, in order
  count,          \* RegularIOCollector.count
  collwg,         \* InterleavedIOCollector.waitgroup counter
  recvd,          \* Read's recvd
  reader,         \* Interleaved Read's helper goroutine
  printed,        \* what Read wrote to standard output, in order
  dones,          \* per host: values received on remote.done, in order
  feed,           \* inputs handed to a component run on its own
  fed,            \* how many of them it has consumed
  pw,             \* the passwordMarshaller and its callers
  sf              \* sendFiles run on its own: its goroutines, stdin, result channel

vars == << flagParallel, flagInterleave, cmd, nhosts, faults, quota, setupErr, mainpc, spawned, primed, sem,
           semClosed, wg, crashed, task, sesh, ret, session, timer, cmdErr,
           calls, relay, chunk, nread, wp, proc, msgs, result, curStream,
           buf, pend, gtimer, got, count, collwg, recvd, reader, printed, dones,
           feed, fed, pw, sf >>

confVars == << flagParallel, flagInterleave, cmd, nhosts, faults, quota, setupErr >>
mainVars == << mainpc, spawned, primed, sem, semClosed, wg >>
taskVars == << task, sesh, ret, session, timer, cmdErr, calls >>
relayVars == << relay, chunk, nread, wp >>
procVars == << proc, msgs, result, curStream, buf, pend, gtimer, got >>
collVars == << count, collwg, recvd, reader, printed >>
auxVars == << feed, fed, pw, sf >>

Hosts == 1..nhosts

\* The process runs: no panic so far and main has not returned.
Alive == ~crashed /\ mainpc \notin {"exit", "fatal"}

\* ------------------------------------------------------------ RemoteIO
CodeStr(code) == CASE code = 0 -> "0" [] code = 3 -> "3" [] OTHER -> "?"

\* The IOMessage each producer entry point builds.
Stdout(data) == [data |-> data, stream |-> 1]
Stderr(data) == [data |-> data, stream |-> 2]
Exit(code) == [data |-> <<"Exited with code: ", CodeStr(code), NL>>, stream |-> -1]

RelayMsg(r, data) == IF r = "out" THEN Stdout(data) ELSE Stderr(data)

\* ------------------------------------------- interleavedProcessor (pure)
\* The tag send() prints for proc.curStream.
StreamTag(s) == CASE s = 1 -> "out" [] s = 2 -> "err" [] s = -1 -> "***" [] OTHER -> "%03d"

\* send(line): the formatted record put on collector.messages.
FormatLine(h, cur, line) == [host |-> h, tag |-> StreamTag(cur), line |-> line, stream |-> cur]

\* flush(): a non-empty buffer is sent as one line and reset.
Flush(h, st) ==
  IF Len(st.buf) > 0
  THEN [st EXCEPT !.lines = Append(@, FormatLine(h, st.cur, st.buf)), !.buf = << >>]
  ELSE st

\* strings.IndexByte(data, '\n'): 1-based, 0 when there is none.
IndexNL(data) ==
  IF \E i \in 1..Len(data) : data[i] = NL
  THEN CHOOSE i \in 1..Len(data) : data[i] = NL /\ \A j \in 1..(i-1) : data[j] # NL
  ELSE 0

RECURSIVE HandleLoop(_, _, _)
HandleLoop(h, st, data) ==
  LET nl == IndexNL(data) IN
  IF nl = 0
  THEN [st EXCEPT !.buf = @ \o data]
  ELSE LET head == SubSeq(data, 1, nl - 1)
           rest == SubSeq(data, nl + 1, Len(data))
           st2 == IF Len(st.buf) > 0
                  THEN Flush(h, [st EXCEPT !.buf = @ \o head])
                  ELSE [st EXCEPT !.lines = Append(@, FormatLine(h, st.cur, head))]
       IN HandleLoop(h, st2, rest)

\* Mutant: the buffer is flushed at the start of every event.
HandleFlushEach(h, st, m) ==
  HandleLoop(h, [Flush(h, st) EXCEPT !.cur = m.stream], m.data)

\* Mutant: a change of stream does not flush the buffer.
HandleNoFlush(h, st, m) == HandleLoop(h, [st EXCEPT !.cur = m.stream], m.data)

\* Mutant: a change of stream flushes but curStream keeps its value.
HandleKeepTag(h, st, m) ==
  HandleLoop(h, IF m.stream # st.cur THEN Flush(h, st) ELSE st, m.data)

\* handle(msg): st is [cur, buf, lines]; lines collects what send() emits.
Handle(h, st, m) ==
  LET st1 == IF m.stream # st.cur
             THEN [Flush(h, st) EXCEPT !.cur = m.stream]
             ELSE st
  IN HandleLoop(h, st1, m.data)

\* The message process() builds for a non-nil result.
FailMsg(err) == [data |-> <<"Failed with ", err, NL>>, stream |-> -1]

\* -------------------------------------------------------------- session
NoSession == [auth |-> "none", connection |-> "none"]

\* NewSSHSession(host, user, auth, remote): the struct literal sets Host,
\* Remote and Config; the auth field keeps its zero value.
NewSSHSession(auth) == [auth |-> Nil, connection |-> Nil]

\* Mutant: only -pty asks for a pseudo-terminal.
NeedPtyFlagOnly(c) == c.Pty

\* if cmd.Sudo || cmd.Pty: runCommand requests a pseudo-terminal.
NeedPty(c) == c.Sudo \/ c.Pty

\* The fallible calls Run makes, in order, before the command is invoked.
RunSteps(c) ==
  (IF c.Files > 0 THEN <<"mktemp", "sendFiles">> ELSE << >>)
  \o (IF c.ForwardAgent THEN <<"forwardAgent">> ELSE << >>)
  \o <<"NewSession">>
  \o (IF c.ForwardAgent THEN <<"RequestAgentForwarding">> ELSE << >>)
  \o (IF NeedPty(c) THEN <<"RequestPty">> ELSE << >>)
  \o <<"StdoutPipe", "StderrPipe", "AfterFunc">>
  \o (IF c.Sudo THEN <<"StdinPipe">> ELSE << >>)

\* What one such call can do: succeed, return an error, or dereference
\* the session's nil auth.
StepOutcomes(step, s) ==
  IF step = "forwardAgent" /\ s.auth = Nil THEN {"panic"}
  ELSE IF step \in faults THEN {"ok", "err"}
  ELSE {"ok"}

\* Mutant: a failing call's error is lost.
StepErrorNil(step) == Nil

\* The error a failing call returns, named after the call; Run and
\* runCommand return it as it is.
StepError(step) == step

Has(seq, x) == \E i \in 1..Len(seq) : seq[i] = x

\* The deferred calls that run when Run returns after `done` calls were made:
\* runCommand's session.Close(), then Run's deltemp, which returns o.
Deferred(done, o) ==
  (IF Has(done, "NewSession") THEN <<"session.Close">> ELSE << >>)
  \o (IF Has(done, "mktemp")
      THEN <<"deltemp">> \o (IF o = "err" THEN <<"rm failed">> ELSE << >>)
      ELSE << >>)

\* What the deferred deltemp can return after `done` calls were made.
DeferOutcomes(done, s) ==
  IF Has(done, "mktemp") THEN StepOutcomes("deltemp", s) ELSE {"ok"}

\* Mutant: a failed removal becomes Run's result.
AfterDeltempErr(r, o) == IF o = "err" THEN "deltemp" ELSE r

\* defer sesh.deltemp(tmpdir): the call's result is dropped, Run returns r.
AfterDeltemp(r, o) == r

\* strings.TrimRight(s, "\r\n") on a token string.
RECURSIVE TrimRight(_)
TrimRight(data) ==
  IF data # << >> /\ data[Len(data)] \in {"\r", NL}
  THEN TrimRight(SubSeq(data, 1, Len(data) - 1))
  ELSE data

\* string(result)
RECURSIVE Join(_)
Join(data) == IF data = << >> THEN "" ELSE Head(data) \o Join(Tail(data))

\* The output of "mktemp -d" and what mktemp() returns of it.
MktempOutput == <<"/tmp/tmp.X", NL>>
Mktemp == Join(TrimRight(MktempOutput))

\* Mutant: Run passes no directory.
DirNone(c) == ""

\* The dir argument Run passes to runCommand.
Dir(c) == IF c.Files > 0 THEN Mktemp ELSE ""

\* cmd.Command
Command == "cmd"

\* shcmd in runCommand: the command, after "cd dir; " when dir is not empty.
ShCmd(c, dir) == IF dir # "" THEN "cd " \o dir \o "; " \o Command ELSE Command

\* The text handed to session.Run.
Invoked(c, dir) ==
  IF c.Sudo THEN "/usr/bin/sudo /bin/bash -c '" \o ShCmd(c, dir) \o "'"
  ELSE ShCmd(c, dir)

\* session.Run's possible results.
CmdNil == [kind |-> "nil", status |-> 0]
ExitError(s) == [kind |-> "ExitError", status |-> s]
Abnormal == [kind |-> "other", status |-> -1]
CmdResults == {CmdNil, Abnormal} \cup {ExitError(s) : s \in ExitCodes \ {0}}

\* Bytes in a token string.
RECURSIVE ByteLen(_)
ByteLen(data) ==
  IF data = << >> THEN 0
  ELSE (CASE Head(data) = Marker -> 20 [] Head(data) = Filler -> 32 [] OTHER -> 1)
       + ByteLen(Tail(data))

\* bytes.Contains(buf, "[sudo] password for ")
ContainsMarker(data) == Has(data, Marker)

\* Every call of Run that can return an error.
AllFaults == {"mktemp", "sendFiles", "deltemp", "forwardAgent", "NewSession",
              "RequestAgentForwarding", "RequestPty", "StdoutPipe",
              "StderrPipe", "StdinPipe"}

\* One host is explored with every command, every failing call and output
\* on both streams, the plain command also with a longer stdout; several
\* hosts with the plain command, whose stdout alone carries output, and a
\* failing NewSession.
FullInput ==
  /\ cmd \in Commands
  /\ faults = AllFaults
  /\ quota \in {[r \in Streams |-> MaxChunks]}
              \cup (IF cmd = Plain
                    THEN {[r \in Streams |-> IF r = "out" THEN MaxBurst ELSE MaxChunks]}
                    ELSE {})

LightInput ==
  /\ cmd = Plain
  /\ faults = {"NewSession"}
  /\ quota = [r \in Streams |-> IF r = "out" THEN MaxChunks ELSE 0]

\* No passwordMarshaller runs.
NoMarshaller == [pc |-> "none"]

\* sendFiles is not run on its own.
NoSend == [pc |-> "none"]

\* ----------------------------------------------------------------- Init
\* Everything but the flags and inputs, as main finds it.
MainState ==
  /\ mainpc = "hosts"
  /\ spawned = 0
  /\ primed = 0
  /\ sem = 0
  /\ semClosed = FALSE
  /\ wg = 0
  /\ crashed = FALSE
  /\ task = [h \in AllHosts |-> "idle"]
  /\ sesh = [h \in AllHosts |-> NoSession]
  /\ ret = [h \in AllHosts |-> Nil]
  /\ session = [h \in AllHosts |-> "none"]
  /\ timer = [h \in AllHosts |-> "off"]
  /\ cmdErr = [h \in AllHosts |-> CmdNil]
  /\ calls = [h \in AllHosts |-> << >>]
  /\ relay = [h \in AllHosts |-> [r \in Streams |-> "none"]]
  /\ chunk = [h \in AllHosts |-> [r \in Streams |-> << >>]]
  /\ nread = [h \in AllHosts |-> [r \in Streams |-> 0]]
  /\ wp = [h \in AllHosts |-> [scanning |-> FALSE, buf |-> << >>, stdin |-> << >>]]
  /\ proc = [h \in AllHosts |-> "none"]
  /\ msgs = [h \in AllHosts |-> << >>]
  /\ result = [h \in AllHosts |-> Nil]
  /\ curStream = [h \in AllHosts |-> -1]
  /\ buf = [h \in AllHosts |-> << >>]
  /\ pend = [h \in AllHosts |-> << >>]
  /\ gtimer = [h \in AllHosts |-> "off"]
  /\ got = [h \in AllHosts |-> << >>]
  /\ count = 0
  /\ collwg = 0
  /\ recvd = 0
  /\ reader = "idle"
  /\ printed = << >>
  /\ dones = [h \in AllHosts |-> << >>]

MainInit ==
  /\ flagParallel \in 1..MaxParallel
  /\ flagInterleave \in BOOLEAN
  /\ nhosts \in 0..NHosts
  /\ setupErr \in {Nil, "GetHosts", "NewAuth"}
  /\ IF nhosts <= 1 THEN FullInput ELSE LightInput
  /\ MainState

Init ==
  /\ MainInit
  /\ feed = << >> /\ fed = 0 /\ pw = NoMarshaller /\ sf = NoSend

\* ----------------------------------------------------------------- main
\* Mutant: the buffer is one slot smaller than the parallelism.
SemCapShort == flagParallel - 1

\* make(chan bool, flagParallel): the admission channel's capacity.
SemCap == flagParallel

\* Mutant: the priming loop runs once too often (i <= flagParallel).
PrimeTokensExtra == flagParallel + 1

\* for i := 0; i < flagParallel; i++ { sem <- true }
PrimeTokens == flagParallel

\* Mutant: the error is logged and main goes on.
OnErrorContinue(next) == next

\* msgs.Fatalf: the message is logged and os.Exit(1) ends the process.
OnError(next) == "fatal"

\* Where main stands after its set-up: at the loop over hosts, or past it
\* when there is none.
AfterSetup == IF nhosts > 0 THEN "spawn" ELSE "prime"

\* hosts, err := GetHosts(...): the host list, or a fatal error.
GetHosts ==
  /\ Alive /\ mainpc = "hosts"
  /\ mainpc' = IF setupErr = "GetHosts" THEN OnError("auth") ELSE "auth"
  /\ UNCHANGED << confVars, auxVars, spawned, primed, sem, semClosed, wg, crashed,
                  taskVars, relayVars, procVars, collVars, dones >>

\* auth, err := NewAuth(...): the Auth, or a fatal error; then the
\* collector, the semaphore and the command are made.
NewAuth ==
  /\ Alive /\ mainpc = "auth"
  /\ mainpc' = IF setupErr = "NewAuth" THEN OnError(AfterSetup) ELSE AfterSetup
  /\ UNCHANGED << confVars, auxVars, spawned, primed, sem, semClosed, wg, crashed,
                  taskVars, relayVars, procVars, collVars, dones >>

\* RegularIOCollector.NewRemote / InterleavedIOCollector.NewRemote: register
\* the host and start its process goroutine.
NewRemote(h) ==
  /\ proc' = [proc EXCEPT ![h] = "wait"]
  /\ IF flagInterleave
     THEN collwg' = collwg + 1 /\ count' = count
     ELSE count' = count + 1 /\ collwg' = collwg

\* One iteration of main's loop over hosts: NewRemote, NewSSHSession, go.
Spawn ==
  /\ Alive /\ mainpc = "spawn" /\ spawned < nhosts
  /\ LET h == spawned + 1 IN
       /\ NewRemote(h)
       /\ sesh' = [sesh EXCEPT ![h] = NewSSHSession("auth")]
       /\ task' = [task EXCEPT ![h] = "add"]
  /\ spawned' = spawned + 1
  /\ mainpc' = IF spawned + 1 < nhosts THEN "spawn" ELSE "prime"
  /\ UNCHANGED << got, confVars, auxVars, primed, sem, semClosed, wg, crashed, ret,
                  session, timer, cmdErr, calls, relayVars, msgs, result,
                  curStream, buf, pend, gtimer, recvd, reader, printed, dones >>

\* sem <- true in the priming loop; blocks while the buffer is full.
Prime ==
  /\ Alive /\ mainpc = "prime" /\ primed < PrimeTokens
  /\ sem < SemCap
  /\ sem' = sem + 1
  /\ primed' = primed + 1
  /\ mainpc' = IF primed + 1 < PrimeTokens THEN "prime" ELSE "read"
  /\ UNCHANGED << confVars, auxVars, spawned, semClosed, wg, crashed,
                  taskVars, relayVars, procVars, collVars, dones >>

\* Mutant: the loop stops one record early.
ReadMoreShort(r, c) == r + 1 < c

\* Read's loop condition: for recvd < coll.count
ReadMore(r, c) == r < c

\* RegularIOCollector.Read leaves its loop once recvd reaches count.
RegularReadReturn ==
  /\ Alive /\ mainpc = "read" /\ ~flagInterleave
  /\ ~ReadMore(recvd, count)
  /\ mainpc' = "wait"
  /\ UNCHANGED << confVars, auxVars, spawned, primed, sem, semClosed, wg, crashed,
                  taskVars, relayVars, procVars, collVars, dones >>

\* Interleaved Read's helper goroutine: waitgroup.Wait(), then done <- true.
ReaderWait ==
  /\ Alive /\ mainpc = "read" /\ flagInterleave
  /\ reader = "idle" /\ collwg = 0
  /\ reader' = "offer"
  /\ UNCHANGED << confVars, auxVars, mainVars, crashed, taskVars, relayVars, procVars,
                  count, collwg, recvd, printed, dones >>

\* Interleaved Read's select takes the done case and returns.
InterleavedReadReturn ==
  /\ Alive /\ mainpc = "read" /\ flagInterleave
  /\ reader = "offer"
  /\ reader' = "end"
  /\ mainpc' = "wait"
  /\ UNCHANGED << confVars, auxVars, spawned, primed, sem, semClosed, wg, crashed,
                  taskVars, relayVars, procVars, count, collwg, recvd,
                  printed, dones >>

\* Mutant: the barrier does not wait.
WaitReturnsAlways(n) == TRUE

\* sync.WaitGroup.Wait blocks until the counter is zero.
WaitReturns(n) == n = 0

\* wg.Wait() returns when the counter is zero.
WgWait ==
  /\ Alive /\ mainpc = "wait"
  /\ WaitReturns(wg)
  /\ mainpc' = "close"
  /\ UNCHANGED << confVars, auxVars, spawned, primed, sem, semClosed, wg, crashed,
                  taskVars, relayVars, procVars, collVars, dones >>

\* close(sem), and main returns.
CloseSem ==
  /\ Alive /\ mainpc = "close"
  /\ semClosed' = TRUE
  /\ mainpc' = "exit"
  /\ UNCHANGED << confVars, auxVars, spawned, primed, sem, wg, crashed,
                  taskVars, relayVars, procVars, collVars, dones >>

\* ------------------------------------------------------- host goroutine
\* wg.Add(1), inside the goroutine.
TaskAdd(h) ==
  /\ Alive /\ task[h] = "add"
  /\ wg' = wg + 1
  /\ task' = [task EXCEPT ![h] = "acquire"]
  /\ UNCHANGED << confVars, auxVars, mainpc, spawned, primed, sem, semClosed, crashed,
                  sesh, ret, session, timer, cmdErr, calls, relayVars,
                  procVars, collVars, dones >>

\* What <-sem leaves in the channel.
TakeToken(n) == n - 1

\* <-sem: takes a token (a closed, empty channel would yield at once).
Acquire(h) ==
  /\ Alive /\ task[h] = "acquire"
  /\ \/ sem > 0 /\ sem' = TakeToken(sem)
     \/ sem = 0 /\ semClosed /\ sem' = sem
  /\ task' = [task EXCEPT ![h] = "connect"]
  /\ UNCHANGED << confVars, auxVars, mainpc, spawned, primed, semClosed, wg, crashed,
                  sesh, ret, session, timer, cmdErr, calls, relayVars,
                  procVars, collVars, dones >>

\* ssh.Connect(flagPort): ssh.Dial succeeds or returns an error.
Connect(h) ==
  /\ Alive /\ task[h] = "connect"
  /\ calls' = [calls EXCEPT ![h] = Append(@, "Connect")]
  /\ \/ /\ sesh' = [sesh EXCEPT ![h].connection = "open"]
        /\ task' = [task EXCEPT ![h] = "run"]
        /\ ret' = ret
     \/ /\ ret' = [ret EXCEPT ![h] = "dial"]
        /\ task' = [task EXCEPT ![h] = "done"]
        /\ sesh' = sesh
  /\ UNCHANGED << confVars, auxVars, mainVars, crashed, session, timer, cmdErr,
                  relayVars, procVars, collVars, dones >>

\* Mutant: the process goroutine receives for as long as it exists.
ReceivingAlways(h) == proc[h] # "none" /\ pend[h] = << >>

\* Mutant: the process goroutine keeps receiving after its grace loop.
ReceivingLate(h) == proc[h] \in {"wait", "grace", "emit", "final"} /\ pend[h] = << >>

\* A host's process goroutine stands at a select that receives from
\* remote.collector (it is not inside a blocking send of its own).
Receiving(h) == proc[h] \in {"wait", "grace"} /\ pend[h] = << >>

\* Mutant: the timer is not restarted after an event.
GraceNoReset(t) == t

\* if !t.Stop() { <-t.C }; t.Reset(deadline): whether it had fired or not,
\* the timer runs again for the whole deadline.
GraceReset(t) == "reset"

\* Mutant: the newest event is put first.
AppendMsgFront(ms, m) == <<m>> \o ms

\* msgs = append(msgs, msg)
AppendMsg(ms, m) == Append(ms, m)

\* The collector side of one receive from remote.collector: Regular
\* process appends to msgs, the interleaved processor calls handle(msg).
Accept(h, m) ==
  /\ gtimer' = [gtimer EXCEPT ![h] = IF proc[h] = "grace" THEN GraceReset(@) ELSE @]
  /\ got' = [got EXCEPT ![h] = Append(@, m)]
  /\ IF flagInterleave
     THEN LET st == Handle(h, [cur |-> curStream[h], buf |-> buf[h], lines |-> << >>], m)
          IN /\ curStream' = [curStream EXCEPT ![h] = st.cur]
             /\ buf' = [buf EXCEPT ![h] = st.buf]
             /\ pend' = [pend EXCEPT ![h] = st.lines]
             /\ msgs' = msgs
     ELSE /\ msgs' = [msgs EXCEPT ![h] = AppendMsg(@, m)]
          /\ UNCHANGED << curStream, buf, pend >>
  /\ UNCHANGED << proc, result >>

\* What the next Read of a relay goroutine (io.Copy, writePass) brings it
\* to, after n chunks: standing at the send of the bytes read, or ended by
\* EOF or a read error.  [pc, data]
NextRead(c, r, n) ==
  {[pc |-> "end", data |-> << >>]}
  \cup (IF n < quota[r] THEN {[pc |-> "send", data |-> d] : d \in ChunkData(c, r, n)} ELSE {})

\* The goroutines runCommand starts before session.Run.
RelayNames(c) ==
  <<(IF c.Sudo THEN "go writePass" ELSE "go io.Copy stdout"), "go io.Copy stderr">>

\* Mutant: the command is invoked before the goroutines are started.
LaunchLate(c, text) == <<"session.Run", text>> \o RelayNames(c)

\* runCommand's "go" statements and the session.Run(shcmd) after them.
Launch(c, text) == RelayNames(c) \o <<"session.Run", text>>

\* SSHSession.Run up to the invocation of the command: staging, session
\* set-up, timer, relay goroutines.  The first call that does not succeed
\* ends it: an error is returned through the deferred calls, a nil
\* dereference panics.
Run(h) ==
  /\ Alive /\ task[h] = "run"
  /\ LET steps == RunSteps(cmd) IN
     \E n \in 1..Len(steps) : \E o \in StepOutcomes(steps[n], sesh[h]) :
       LET made == SubSeq(steps, 1, n)
           prior == SubSeq(steps, 1, n - 1)
       IN
       /\ \A i \in 1..(n - 1) : "ok" \in StepOutcomes(steps[i], sesh[h])
       /\ (o = "ok") => (n = Len(steps))
       /\ \/ /\ o = "panic"
             /\ crashed' = TRUE
             /\ \E d \in DeferOutcomes(prior, sesh[h]) :
                  calls' = [calls EXCEPT ![h] = @ \o <<"Run">> \o made \o Deferred(prior, d)]
             /\ UNCHANGED << task, ret, session, timer, relay, chunk, wp >>
          \/ /\ o = "err"
             /\ \E d \in DeferOutcomes(prior, sesh[h]) :
                  /\ calls' = [calls EXCEPT ![h] = @ \o <<"Run">> \o made \o Deferred(prior, d)]
                  /\ ret' = [ret EXCEPT ![h] = AfterDeltemp(StepError(steps[n]), d)]
             /\ session' = [session EXCEPT ![h] = IF Has(prior, "NewSession") THEN "closed" ELSE @]
             /\ timer' = [timer EXCEPT ![h] = IF Has(prior, "AfterFunc") THEN "armed" ELSE @]
             /\ task' = [task EXCEPT ![h] = "done"]
             /\ UNCHANGED << crashed, relay, chunk, wp >>
          \/ /\ o = "ok"
             /\ calls' = [calls EXCEPT ![h] = @ \o <<"Run">> \o made
                                                 \o Launch(cmd, Invoked(cmd, Dir(cmd)))]
             /\ session' = [session EXCEPT ![h] = "open"]
             /\ timer' = [timer EXCEPT ![h] = "armed"]
             /\ \E ro \in NextRead(cmd, "out", 0) : \E re \in NextRead(cmd, "err", 0) :
                  /\ relay' = [relay EXCEPT ![h] = [r \in Streams |-> IF r = "out" THEN ro.pc ELSE re.pc]]
                  /\ chunk' = [chunk EXCEPT ![h] = [r \in Streams |-> IF r = "out" THEN ro.data ELSE re.data]]
             /\ wp' = [wp EXCEPT ![h].scanning = cmd.Sudo]
             /\ task' = [task EXCEPT ![h] = "cmd"]
             /\ UNCHANGED << crashed, ret >>
  /\ UNCHANGED << confVars, auxVars, mainVars, sesh, cmdErr, nread, procVars,
                  collVars, dones >>

\* Mutant: the callback does nothing.
TimerCallbackNoop(s) == s

\* What the time.AfterFunc callback, session.Close(), leaves of the
\* command sub-session.
TimerCallback(s) == "closed"

\* The deadline passes and the callback runs.
TimerFire(h) ==
  /\ Alive /\ timer[h] = "armed" /\ cmd.Timeout = "short"
  /\ timer' = [timer EXCEPT ![h] = "fired"]
  /\ session' = [session EXCEPT ![h] = TimerCallback(@)]
  /\ UNCHANGED << confVars, auxVars, mainVars, crashed, task, sesh, ret, cmdErr, calls,
                  relayVars, procVars, collVars, dones >>

\* What session.Run can return: the remote's exit report while the
\* sub-session is up, a transport error once it was torn down.
RunResults(s) == IF s = "closed" THEN {Abnormal} ELSE CmdResults

\* session.Run(shcmd) returns.
CmdFinish(h) ==
  /\ Alive /\ task[h] = "cmd"
  /\ \E r \in RunResults(session[h]) : cmdErr' = [cmdErr EXCEPT ![h] = r]
  /\ task' = [task EXCEPT ![h] = "stop"]
  /\ UNCHANGED << confVars, auxVars, mainVars, crashed, sesh, ret, session, timer, calls,
                  relayVars, procVars, collVars, dones >>

\* Mutant: only a nil error counts as an exit.
ExitedNilOnly(e) == e.kind = "nil"

\* Mutant: every result counts as an exit.
ExitedAlways(e) == TRUE

\* cmdErr == nil, or cmdErr is an *ssh.ExitError: the command exited.
Exited(e) == e.kind \in {"nil", "ExitError"}

\* timeout.Stop(), then the three-way branch on cmdErr: the two exit
\* branches go on to Remote.Exit, the last returns cmdErr.
TimeoutStop(h) ==
  /\ Alive /\ task[h] = "stop"
  /\ timer' = [timer EXCEPT ![h] = IF @ = "armed" THEN "stopped" ELSE @]
  /\ IF Exited(cmdErr[h])
     THEN /\ task' = [task EXCEPT ![h] = "exit"]
          /\ UNCHANGED << ret, session, calls >>
     ELSE /\ \E d \in DeferOutcomes(RunSteps(cmd), sesh[h]) :
               /\ ret' = [ret EXCEPT ![h] = AfterDeltemp("abnormal", d)]
               /\ calls' = [calls EXCEPT ![h] = @ \o Deferred(RunSteps(cmd), d)]
          /\ session' = [session EXCEPT ![h] = "closed"]
          /\ task' = [task EXCEPT ![h] = "done"]
  /\ UNCHANGED << confVars, auxVars, mainVars, crashed, sesh, cmdErr, relayVars,
                  procVars, collVars, dones >>

\* Mutant: the notice always reports status 0.
ExitNoticeZero(e) == Exit(0)

\* The event of sesh.Remote.Exit(0) for a nil error and of
\* sesh.Remote.Exit(exitErr.ExitStatus()) for an ExitError.
ExitNotice(e) == Exit(e.status)

\* sesh.Remote.Exit(status) is received by the host's process goroutine;
\* runCommand returns nil through its deferred calls.
RecvExit(h) ==
  /\ Alive /\ task[h] = "exit" /\ Receiving(h)
  /\ Accept(h, ExitNotice(cmdErr[h]))
  /\ \E d \in DeferOutcomes(RunSteps(cmd), sesh[h]) :
       /\ ret' = [ret EXCEPT ![h] = AfterDeltemp(Nil, d)]
       /\ calls' = [calls EXCEPT ![h] = @ \o <<"Exit">> \o Deferred(RunSteps(cmd), d)]
  /\ session' = [session EXCEPT ![h] = "closed"]
  /\ task' = [task EXCEPT ![h] = "done"]
  /\ UNCHANGED << confVars, auxVars, mainVars, crashed, sesh, timer, cmdErr, relayVars,
                  collVars, dones >>

\* ssh.Close(), called after Done when Connect had succeeded.
Close(s) == IF s.connection = "open" THEN [s EXCEPT !.connection = Nil] ELSE s

\* Mutant: Close is called on the failure path as well.
CloseCallsAlways(s) == <<"Close">>

\* The task calls ssh.Close() after Done unless it returned early after a
\* failed Connect.
CloseCalls(s) == IF s.connection = "open" THEN <<"Close">> ELSE << >>

\* Mutant: the task reports nil whatever happened.
DoneArgNil(h) == Nil

\* The value the task passes to remote.Done: Connect's error, or what Run
\* returned.
DoneArg(h) == ret[h]

\* Mutant: the release is not deferred, so the early return after a failed
\* Connect skips it.
AfterDoneNoDefer(s) == IF s.connection = "open" THEN "release" ELSE "end"

\* Where the task stands once Done (and Close) returned: at the deferred
\* function, on the failure path as on the success path.
AfterDone(s) == "release"

\* remote.Done(err) is received by the first select of process(); the
\* task goes on to ssh.Close() (after Run) and stands at the deferred
\* release.
RecvDone(h) ==
  /\ Alive /\ task[h] = "done" /\ proc[h] = "wait" /\ pend[h] = << >>
  /\ result' = [result EXCEPT ![h] = DoneArg(h)]
  /\ dones' = [dones EXCEPT ![h] = Append(@, DoneArg(h))]
  /\ proc' = [proc EXCEPT ![h] = "grace"]
  /\ gtimer' = [gtimer EXCEPT ![h] = "running"]
  /\ calls' = [calls EXCEPT ![h] = Append(@, "Done") \o CloseCalls(sesh[h])]
  /\ sesh' = [sesh EXCEPT ![h] = Close(@)]
  /\ task' = [task EXCEPT ![h] = AfterDone(sesh[h])]
  /\ UNCHANGED << got, confVars, auxVars, mainVars, crashed, ret, session, timer, cmdErr,
                  relayVars, msgs, curStream, buf, pend, collVars >>

\* Mutant: the deferred function forgets the token.
PutTokenLost(n) == n

\* What the deferred sem <- true leaves in the channel.
PutToken(n) == n + 1

\* Mutant: the task waits for its relay goroutines before it returns.
ReturnsJoined(h) == \A r \in Streams : relay[h][r] \in {"none", "end"}

\* The host task returns whatever the goroutines runCommand started are
\* doing: nothing waits for them.
Returns(h) == TRUE

\* The deferred sem <- true (a send on a closed channel panics).
Release(h) ==
  /\ Alive /\ task[h] = "release" /\ Returns(h)
  /\ IF semClosed
     THEN crashed' = TRUE /\ UNCHANGED << sem, task >>
     ELSE /\ sem < SemCap
          /\ sem' = PutToken(sem)
          /\ task' = [task EXCEPT ![h] = "wgdone"]
          /\ crashed' = crashed
  /\ calls' = [calls EXCEPT ![h] = Append(@, "release")]
  /\ UNCHANGED << confVars, auxVars, mainpc, spawned, primed, semClosed, wg, sesh, ret,
                  session, timer, cmdErr, relayVars, procVars, collVars,
                  dones >>

\* The deferred wg.Done()
WgDone(h) ==
  /\ Alive /\ task[h] = "wgdone"
  /\ wg' = wg - 1
  /\ task' = [task EXCEPT ![h] = "end"]
  /\ UNCHANGED << confVars, auxVars, mainpc, spawned, primed, sem, semClosed, crashed,
                  sesh, ret, session, timer, cmdErr, calls, relayVars,
                  procVars, collVars, dones >>

\* ------------------------------------------------------ relay goroutines
\* writePass after sesh.Remote.Stdout(sect[:n]) returned: the marker check
\* (sesh.auth.getPassword() on the session's auth), the 64-byte give-up.
\* w is [scanning, buf, stdin]; the result adds panic.
ScanStep(w, s, data) ==
  LET b == w.buf \o data IN
  IF ~w.scanning THEN [w |-> w, panic |-> FALSE]
  ELSE IF ContainsMarker(b)
  THEN IF s.auth = Nil
       THEN [w |-> [w EXCEPT !.buf = b], panic |-> TRUE]
       ELSE [w |-> [scanning |-> FALSE, buf |-> b,
                    stdin |-> w.stdin \o <<"pw", "\r", "close">>], panic |-> FALSE]
  ELSE IF ByteLen(b) > 64
  THEN [w |-> [scanning |-> FALSE, buf |-> b, stdin |-> Append(w.stdin, "close")],
        panic |-> FALSE]
  ELSE [w |-> [w EXCEPT !.buf = b], panic |-> FALSE]

\* Mutant: the copy loop does not move on in the remote's output.
AdvanceStay(n) == n

\* Write returned len(p), nil: the copy loop is past the n-th chunk.
Advance(n) == n + 1

\* The relay's blocking send on remote.collector is received; the
\* goroutine goes on to its next Read.
RecvRelay(h, r) ==
  /\ Alive /\ relay[h][r] = "send" /\ Receiving(h)
  /\ Accept(h, RelayMsg(r, chunk[h][r]))
  /\ nread' = [nread EXCEPT ![h][r] = Advance(@)]
  /\ \E nx \in NextRead(cmd, r, Advance(nread[h][r])) :
       /\ relay' = [relay EXCEPT ![h][r] = nx.pc]
       /\ chunk' = [chunk EXCEPT ![h][r] = nx.data]
  /\ IF r = "out"
     THEN LET sc == ScanStep(wp[h], sesh[h], chunk[h][r])
          IN wp' = [wp EXCEPT ![h] = sc.w] /\ crashed' = (crashed \/ sc.panic)
     ELSE UNCHANGED << wp, crashed >>
  /\ UNCHANGED << confVars, auxVars, mainVars, taskVars, collVars, dones >>

\* ---------------------------------------------------- collector process
\* The 250 ms of the grace timer pass: a value waits in t.C.
GraceFire(h) ==
  /\ Alive /\ proc[h] = "grace" /\ gtimer[h] \in {"running", "reset"}
  /\ gtimer' = [gtimer EXCEPT ![h] = "fired"]
  /\ UNCHANGED << got, confVars, auxVars, mainVars, crashed, taskVars, relayVars, proc,
                  msgs, result, curStream, buf, pend, collVars, dones >>

\* Mutant: no result counts as a failure.
FailedNever(r) == FALSE

\* if result != nil
Failed(r) == r # Nil

\* Mutant: the processor ends without the last flush.
FinalFlushNone(h, st) == st

\* interleavedProcessor.process(): proc.flush() after the grace loop.
FinalFlush(h, st) == Flush(h, st)

\* The second select takes <-t.C and the loop ends.  Regular: go on to
\* send the record.  Interleaved: handle the failure message for a non-nil
\* result, then flush.
GraceExpired(h) ==
  /\ Alive /\ proc[h] = "grace" /\ pend[h] = << >>
  /\ gtimer[h] = "fired"
  /\ gtimer' = [gtimer EXCEPT ![h] = "expired"]
  /\ IF flagInterleave
     THEN LET st0 == [cur |-> curStream[h], buf |-> buf[h], lines |-> << >>]
              st1 == IF Failed(result[h]) THEN Handle(h, st0, FailMsg(result[h])) ELSE st0
              st2 == FinalFlush(h, st1)
          IN /\ curStream' = [curStream EXCEPT ![h] = st2.cur]
             /\ buf' = [buf EXCEPT ![h] = st2.buf]
             /\ pend' = [pend EXCEPT ![h] = st2.lines]
             /\ proc' = [proc EXCEPT ![h] = "final"]
     ELSE /\ proc' = [proc EXCEPT ![h] = "emit"]
          /\ UNCHANGED << curStream, buf, pend >>
  /\ UNCHANGED << got, confVars, auxVars, mainVars, crashed, taskVars, relayVars, msgs,
                  result, collVars, dones >>

\* The IOResult process() sends.
IOResult(h) == [host |-> h, msgs |-> msgs[h], result |-> result[h]]

\* Mutant: the failure line is never printed.
PrintBlockBare(res) ==
  [host |-> res.host,
   body |-> [i \in 1..Len(res.msgs) |-> res.msgs[i].data],
   failed |-> << >>]

\* Mutant: the failure line is printed for every result.
PrintBlockAlways(res) ==
  [host |-> res.host,
   body |-> [i \in 1..Len(res.msgs) |-> res.msgs[i].data],
   failed |-> <<"==> Failed with ", res.result>>]

\* What Read prints for one IOResult: the header, every message's data,
\* and the failure line for a non-nil result.
PrintBlock(res) ==
  [host |-> res.host,
   body |-> [i \in 1..Len(res.msgs) |-> res.msgs[i].data],
   failed |-> IF res.result # Nil THEN <<"==> Failed with ", res.result>> ELSE << >>]

\* coll.results <- &IOResult{...} is received by Read's loop and printed.
RegularRead(h) ==
  /\ Alive /\ proc[h] = "emit"
  /\ mainpc = "read" /\ ~flagInterleave /\ ReadMore(recvd, count)
  /\ printed' = Append(printed, PrintBlock(IOResult(h)))
  /\ recvd' = recvd + 1
  /\ proc' = [proc EXCEPT ![h] = "end"]
  /\ UNCHANGED << got, confVars, auxVars, mainVars, crashed, taskVars, relayVars, msgs,
                  result, curStream, buf, pend, gtimer, count, collwg, reader, dones >>

\* Mutant: Read receives the record and prints nothing.
PrintLineDrop(out, rec) == out

\* fmt.Println(msg.data) in Read's select.
PrintLine(out, rec) == Append(out, rec)

\* A send() of the interleaved processor is received by Read's select and
\* printed.
InterleavedRead(h) ==
  /\ Alive /\ pend[h] # << >>
  /\ mainpc = "read" /\ flagInterleave
  /\ printed' = PrintLine(printed, Head(pend[h]))
  /\ pend' = [pend EXCEPT ![h] = Tail(@)]
  /\ UNCHANGED << got, confVars, auxVars, mainVars, crashed, taskVars, relayVars, proc, msgs,
                  result, curStream, buf, gtimer, count, collwg, recvd, reader, dones >>

\* The deferred coll.waitgroup.Done() of InterleavedIOCollector.process.
ProcessorDone(h) ==
  /\ Alive /\ proc[h] = "final" /\ pend[h] = << >>
  /\ collwg' = collwg - 1
  /\ proc' = [proc EXCEPT ![h] = "end"]
  /\ UNCHANGED << got, confVars, auxVars, mainVars, crashed, taskVars, relayVars, msgs,
                  result, curStream, buf, pend, gtimer, count, recvd, reader, printed,
                  dones >>

\* ----------------------------------------------------------------- spec
Next ==
  \/ GetHosts
  \/ NewAuth
  \/ Spawn
  \/ Prime
  \/ RegularReadReturn
  \/ ReaderWait
  \/ InterleavedReadReturn
  \/ WgWait
  \/ CloseSem
  \/ \E h \in Hosts : TaskAdd(h)
  \/ \E h \in Hosts : Acquire(h)
  \/ \E h \in Hosts : Connect(h)
  \/ \E h \in Hosts : Run(h)
  \/ \E h \in Hosts : TimerFire(h)
  \/ \E h \in Hosts : CmdFinish(h)
  \/ \E h \in Hosts : TimeoutStop(h)
  \/ \E h \in Hosts : RecvExit(h)
  \/ \E h \in Hosts : RecvDone(h)
  \/ \E h \in Hosts : Release(h)
  \/ \E h \in Hosts : WgDone(h)
  \/ \E h \in Hosts : \E r \in Streams : RecvRelay(h, r)
  \/ \E h \in Hosts : GraceFire(h)
  \/ \E h \in Hosts : GraceExpired(h)
  \/ \E h \in Hosts : RegularRead(h)
  \/ \E h \in Hosts : InterleavedRead(h)
  \/ \E h \in Hosts : ProcessorDone(h)

Spec == Init /\ [][Next]_vars

\* Every blocking call returns and every runnable goroutine is scheduled.
FairSpec == Spec /\ WF_vars(Next)

\* ------------------------------------- interleavedProcessor on its own
SeqsUpTo(S, n) == UNION {[1..k -> S] : k \in 0..n}

\* The bytes of one event: up to MaxData of a letter and the newline.
FeedData == SeqsUpTo({"a", NL}, MaxData)

\* The events a processor can be handed: stdout and stderr chunks and an
\* exit notice.
FeedEvents == {Stdout(d) : d \in FeedData} \cup {Stderr(d) : d \in FeedData} \cup {Exit(0)}

\* One host, interleaved collector; the processor of host 1 as
\* InterleavedIOCollector.process builds it, and the events it will get.
HandleInit ==
  /\ flagParallel = 1 /\ flagInterleave = TRUE /\ nhosts = 1
  /\ cmd = Plain /\ faults = {} /\ quota = [r \in Streams |-> 0]
  /\ setupErr = Nil
  /\ MainState
  /\ feed \in SeqsUpTo(FeedEvents, MaxFeed)
  /\ fed = 0
  /\ pw = NoMarshaller
  /\ sf = NoSend

\* proc.handle(msg) for the next event; the lines it sends queue up in
\* pend.
HandleNext ==
  /\ fed < Len(feed)
  /\ LET st == Handle(1, [cur |-> curStream[1], buf |-> buf[1], lines |-> pend[1]],
                      feed[fed + 1])
     IN /\ curStream' = [curStream EXCEPT ![1] = st.cur]
        /\ buf' = [buf EXCEPT ![1] = st.buf]
        /\ pend' = [pend EXCEPT ![1] = st.lines]
  /\ fed' = fed + 1
  /\ UNCHANGED << got, confVars, feed, pw, sf, mainVars, crashed, taskVars, relayVars, proc,
                  msgs, result, gtimer, collVars, dones >>

HandleSpec == HandleInit /\ [][HandleNext]_vars

\* ------------------------------------------------- writePass on its own
\* What one stdout.Read(sect) can deliver to writePass.
ScanReads == {<<"a">>, <<Marker>>, <<Filler>>}

\* One host, -sudo, Regular collector; the reads writePass will make.
ScanInit ==
  /\ flagParallel = 1 /\ flagInterleave = FALSE /\ nhosts = 1
  /\ cmd = [Plain EXCEPT !.Sudo = TRUE] /\ faults = {} /\ quota = [r \in Streams |-> 0]
  /\ setupErr = Nil
  /\ MainState
  /\ feed \in SeqsUpTo(ScanReads, MaxReads)
  /\ fed = 0
  /\ pw = NoMarshaller
  /\ sf = NoSend

\* NewSSHSession for the host, then go sesh.writePass(stdin, stdout).
ScanStart ==
  /\ relay[1]["out"] = "none"
  /\ sesh' = [sesh EXCEPT ![1] = NewSSHSession("auth")]
  /\ wp' = [wp EXCEPT ![1].scanning = TRUE]
  /\ relay' = [relay EXCEPT ![1]["out"] = "read"]
  /\ UNCHANGED << confVars, auxVars, mainVars, crashed, task, ret, session, timer,
                  cmdErr, calls, chunk, nread, procVars, collVars, dones >>

\* One round of writePass's loop, or of the io.Copy after it: Read,
\* sesh.Remote.Stdout (the transcript receives the event), then the scan.
ScanNext ==
  /\ ~crashed /\ relay[1]["out"] = "read" /\ fed < Len(feed)
  /\ LET sc == ScanStep(wp[1], sesh[1], feed[fed + 1])
     IN wp' = [wp EXCEPT ![1] = sc.w] /\ crashed' = sc.panic
  /\ msgs' = [msgs EXCEPT ![1] = Append(@, Stdout(feed[fed + 1]))]
  /\ nread' = [nread EXCEPT ![1]["out"] = @ + 1]
  /\ fed' = fed + 1
  /\ UNCHANGED << got, confVars, feed, pw, sf, mainVars, taskVars, relay, chunk, proc, result,
                  curStream, buf, pend, gtimer, collVars, dones >>

ScanSpec == ScanInit /\ [][ScanStart \/ ScanNext]_vars

\* ------------------------------------------------ the passwordMarshaller
\* The goroutines that call Auth.getPassword (ssh's PasswordCallback for a
\* host, writePass for a host).
Callers == 1..NCallers

\* What terminal.ReadPassword can return, as run() stores it.
Responses == {[password |-> "pw", err |-> Nil], [password |-> "", err |-> "readerr"]}

\* newPasswordMarshaller: run() stands at its first receive on requests.
NewPasswordMarshaller ==
  [pc |-> "first", req |-> 0, prompts |-> 0, response |-> Nil,
   callers |-> [c \in Callers |-> [pc |-> "idle", asks |-> 0, got |-> << >>]]]

PwInit ==
  /\ flagParallel = 1 /\ flagInterleave = FALSE /\ nhosts = NCallers
  /\ cmd = Plain /\ faults = {} /\ quota = [r \in Streams |-> 0]
  /\ setupErr = Nil
  /\ MainState
  /\ feed = << >>
  /\ fed = 0
  /\ pw = NewPasswordMarshaller
  /\ sf = NoSend

PwFrame == UNCHANGED << confVars, feed, fed, sf, mainVars, crashed, taskVars, relayVars,
                        procVars, collVars, dones >>

\* Auth.getPassword with auth.pw set: pw.getPassword makes the result
\* channel and stands at its send on pw.requests.
GetPassword(c) ==
  /\ pw.pc # "none"
  /\ pw.callers[c].pc = "idle" /\ pw.callers[c].asks < MaxAsk
  /\ pw' = [pw EXCEPT !.callers[c].pc = "sending"]
  /\ PwFrame

\* Mutant: run() goes back to its start after a reply.
AfterReplyRestart(pc) == "first"

\* After request <- response run() is in its for loop.
AfterReply(pc) == "loop"

\* pw.requests is unbuffered: request := <-pw.requests in run() meets the
\* send of one caller, which goes on to its receive on result.
TakeRequest(c) ==
  /\ pw.pc \in {"first", "loop"} /\ pw.callers[c].pc = "sending"
  /\ pw' = [pw EXCEPT !.pc = IF @ = "first" THEN "prompting" ELSE "reply",
                      !.req = c, !.callers[c].pc = "receiving"]
  /\ PwFrame

\* fmt.Printf("Password:"); terminal.ReadPassword(0); the response is built.
Prompt ==
  /\ pw.pc = "prompting"
  /\ \E r \in Responses :
       pw' = [pw EXCEPT !.pc = "reply", !.prompts = @ + 1, !.response = r]
  /\ PwFrame

\* request <- response meets the caller's response := <-result.
Reply ==
  /\ pw.pc = "reply" /\ pw.callers[pw.req].pc = "receiving"
  /\ pw' = [pw EXCEPT !.pc = AfterReply(@), !.req = 0,
                      !.callers[pw.req].pc = "received",
                      !.callers[pw.req].got = Append(@, pw.response)]
  /\ PwFrame

\* close(result); return response.password, response.err.
GetPasswordReturn(c) ==
  /\ pw.pc # "none" /\ pw.callers[c].pc = "received"
  /\ pw' = [pw EXCEPT !.callers[c].pc = "idle", !.callers[c].asks = @ + 1]
  /\ PwFrame

Serve == (\E c \in Callers : TakeRequest(c)) \/ Reply
         \/ (\E c \in Callers : GetPasswordReturn(c))

PwNext == (\E c \in Callers : GetPassword(c)) \/ Prompt \/ Serve

PwSpec == PwInit /\ [][PwNext]_vars

\* The goroutines run: a rendezvous both sides stand at happens, a
\* caller holding its response returns.  The prompt may never return.
PwFairSpec == PwSpec /\ WF_vars(Serve)

\* ------------------------------------------------- sendFiles on its own
\* The files -f names: path components, mode bits, contents, and the error
\* os.Open or f.Stat returns for it, if any.
FileKinds ==
  { [path |-> <<"dir", "f.sh">>, mode |-> 2541, data |-> <<"x", "y">>, err |-> Nil],
    [path |-> <<"g">>, mode |-> 420, data |-> << >>, err |-> Nil],
    [path |-> <<"h">>, mode |-> 420, data |-> <<"x">>, err |-> "open"],
    [path |-> <<"k">>, mode |-> 420, data |-> <<"x">>, err |-> "stat"] }

\* The byte fmt.Fprintf(stdin, "\x00") writes.
Nul == "\\x00"

Digit(d) ==
  CASE d = 0 -> "0" [] d = 1 -> "1" [] d = 2 -> "2" [] d = 3 -> "3" [] d = 4 -> "4"
    [] d = 5 -> "5" [] d = 6 -> "6" [] d = 7 -> "7" [] d = 8 -> "8" [] OTHER -> "9"

\* %d
RECURSIVE Dec(_)
Dec(n) == IF n < 10 THEN Digit(n) ELSE Dec(n \div 10) \o Digit(n % 10)

\* %04o of a value below 8^4
Octal4(n) ==
  Digit((n \div 512) % 8) \o Digit((n \div 64) % 8) \o Digit((n \div 8) % 8) \o Digit(n % 8)

\* info.Mode().Perm(): the nine permission bits.
Perm(mode) == mode % 512

\* Mutant: the header names the whole path.
BaseWhole(path) ==
  Join([i \in 1..(2 * Len(path) - 1) |-> IF i % 2 = 1 THEN path[(i + 1) \div 2] ELSE "/"])

\* path.Base(file): the last element of the path.
Base(path) == path[Len(path)]

\* fmt.Fprintf(stdin, "C%04o %d %s\n", perm, size, base)
Header(f) ==
  "C" \o Octal4(Perm(f.mode)) \o " " \o Dec(Len(f.data)) \o " " \o Base(f.path) \o NL

\* sendFiles at its entry: no session, no goroutine, the channel not made.
NewSend ==
  [pc |-> "new", sender |-> "none", stdin |-> << >>, closed |-> FALSE,
   result |-> << >>, sends |-> 0, resultClosed |-> FALSE, remote |-> "none",
   err |-> Nil, sendErr |-> Nil, ret |-> Nil, sessionClosed |-> FALSE]

\* One host with a connection; the files of cmd.Files.
SendInit ==
  /\ flagParallel = 1 /\ flagInterleave = FALSE /\ nhosts = 1
  /\ cmd = [Plain EXCEPT !.Files = 1] /\ faults = {} /\ quota = [r \in Streams |-> 0]
  /\ setupErr = Nil
  /\ MainState
  /\ feed \in SeqsUpTo(FileKinds, MaxFiles)
  /\ fed = 0
  /\ pw = NoMarshaller
  /\ sf = NewSend

SendFrame == UNCHANGED << confVars, feed, pw, mainVars, crashed, taskVars, relayVars,
                          procVars, collVars, dones >>

\* A write on the sub-session's stdin: it goes to the remote receiver while
\* that runs and fails once it has exited; the sender ignores the error.
StdinWrite(w, bytes) == IF w.remote = "running" THEN w.stdin \o bytes ELSE w.stdin

\* Mutant: the result channel has no buffer.
CanSendNever(ch) == FALSE

\* make(chan error, 1): a send finds room while the buffer is empty.
CanSend(ch) == Len(ch) < 1

\* NewSession, defer session.Close(), StdinPipe, make(chan error, 1), the
\* "go" statement, and the call of CombinedOutput that starts scp -tr.
SendStart ==
  /\ sf.pc = "new"
  /\ \E o \in {"ok", "NewSession", "StdinPipe"} :
       sf' = CASE o = "NewSession" -> [sf EXCEPT !.pc = "returned", !.ret = o]
               [] o = "StdinPipe" ->
                    [sf EXCEPT !.pc = "returned", !.ret = o, !.sessionClosed = TRUE]
               [] OTHER -> [sf EXCEPT !.pc = "combined", !.sender = "open",
                                      !.remote = "running"]
  /\ UNCHANGED fed /\ SendFrame

\* The sender's loop head: os.Open and f.Stat of the next file.  An error
\* of either is sent on result and the goroutine returns through its
\* deferred stdin.Close().
SendOpen ==
  /\ sf.sender = "open" /\ fed < Len(feed)
  /\ LET f == feed[fed + 1] IN
     IF f.err # Nil
     THEN /\ CanSend(sf.result)
          /\ sf' = [sf EXCEPT !.result = Append(@, f.err), !.sends = @ + 1,
                              !.closed = TRUE, !.sender = "end"]
     ELSE sf' = [sf EXCEPT !.sender = "header"]
  /\ UNCHANGED fed /\ SendFrame

\* fmt.Fprintf(stdin, "C%04o %d %s\n", ...)
SendHeader ==
  /\ sf.sender = "header"
  /\ sf' = [sf EXCEPT !.stdin = StdinWrite(sf, <<Header(feed[fed + 1])>>), !.sender = "copy"]
  /\ UNCHANGED fed /\ SendFrame

\* io.Copy(stdin, f)
SendCopy ==
  /\ sf.sender = "copy"
  /\ sf' = [sf EXCEPT !.stdin = StdinWrite(sf, feed[fed + 1].data), !.sender = "nul"]
  /\ UNCHANGED fed /\ SendFrame

\* fmt.Fprintf(stdin, "\x00"), and on to the next file.
SendNul ==
  /\ sf.sender = "nul"
  /\ sf' = [sf EXCEPT !.stdin = StdinWrite(sf, <<Nul>>), !.sender = "open"]
  /\ fed' = fed + 1
  /\ SendFrame

\* After the last file: result <- nil, then the deferred stdin.Close().
SendEnd ==
  /\ sf.sender = "open" /\ fed = Len(feed)
  /\ CanSend(sf.result)
  /\ sf' = [sf EXCEPT !.result = Append(@, Nil), !.sends = @ + 1,
                      !.closed = TRUE, !.sender = "end"]
  /\ UNCHANGED fed /\ SendFrame

\* session.CombinedOutput returns when the remote scp has exited: without
\* error only after it saw the end of its input, with an error at any time.
CombinedOutput ==
  /\ sf.pc = "combined"
  /\ \E e \in (IF sf.closed THEN {Nil} ELSE {}) \cup {"scp"} :
       sf' = [sf EXCEPT !.remote = "exited", !.err = e, !.pc = "recv"]
  /\ UNCHANGED fed /\ SendFrame

\* sendErr := <-result; if err == nil { err = sendErr }; close(result);
\* return err, through the deferred session.Close().
SendReturn ==
  /\ sf.pc = "recv" /\ sf.result # << >>
  /\ sf' = [sf EXCEPT !.sendErr = Head(sf.result), !.result = Tail(@),
                      !.ret = IF sf.err = Nil THEN Head(sf.result) ELSE sf.err,
                      !.resultClosed = TRUE, !.sessionClosed = TRUE,
                      !.pc = "returned"]
  /\ UNCHANGED fed /\ SendFrame

SendNext ==
  \/ SendStart
  \/ SendOpen
  \/ SendHeader
  \/ SendCopy
  \/ SendNul
  \/ SendEnd
  \/ CombinedOutput
  \/ SendReturn

SendSpec == SendInit /\ [][SendNext]_vars

\* Both goroutines run: an enabled step of either is eventually taken.
SendFairSpec == SendSpec /\ WF_vars(SendNext)

\* ------------------------------------------------------------- claims
Count(seq, x) == Cardinality({i \in 1..Len(seq) : seq[i] = x})

\* The task holds an admission slot: it took a token and has not put it back.
Holding(h) == task[h] \in {"connect", "run", "cmd", "stop", "exit", "done", "release"}

\* The task is past Connect and Run: it stands at Done or later.
Returned(h) == task[h] \in {"done", "release", "wgdone", "end"}

\* session.Run was reached and has returned.
CmdRan(h) == Has(calls[h], "session.Run") /\ Returned(h)

\* Events of host h the collector has received.
Received(h) == nread[h]["out"] + nread[h]["err"] + Count(calls[h], "Exit")

\* The blocks Read printed for host h (Regular collector).
Blocks(h) == {i \in 1..Len(printed) : printed[i].host = h}

\* C1: at most flagParallel host tasks hold an admission slot at any time,
\* so at most flagParallel sessions are connecting, connected or running;
\* with parallelism 1 a second host's Connect starts only after the first
\* host's task has released its slot.
C1_AtMostK ==
  /\ Cardinality({h \in Hosts : Holding(h)}) <= flagParallel
  /\ Cardinality({h \in Hosts : sesh[h].connection = "open"}) <= flagParallel
  /\ flagParallel = 1 =>
       \A h1, h2 \in Hosts :
         (h1 # h2 /\ Has(calls[h1], "Connect") /\ Has(calls[h2], "Connect"))
           => (Has(calls[h1], "release") \/ Has(calls[h2], "release"))

C1_Witness ==
  /\ flagParallel = 1 /\ sem = 0
  /\ \E h1, h2 \in Hosts : task[h1] = "cmd" /\ task[h2] = "acquire"

\* C2: every host task signals Done exactly once, with the connection
\* error when Connect failed and with Run's return value otherwise.
C2_DoneOnce ==
  \A h \in Hosts :
    /\ Len(dones[h]) <= 1
    /\ Count(calls[h], "Done") = Len(dones[h])
    /\ task[h] \in {"release", "wgdone", "end"} => Len(dones[h]) = 1
    /\ task[h] \notin {"release", "wgdone", "end"} => dones[h] = << >>
    /\ dones[h] # << >> =>
         dones[h][1] = (IF Has(calls[h], "Run") THEN ret[h] ELSE "dial")

C2_Witness ==
  \E h, g \in Hosts :
    /\ task[h] = "end" /\ dones[h] = <<"dial">>
    /\ task[g] = "end" /\ dones[g] = <<Nil>>

\* No task is inside a Connect or Run call.
NoCallPending == \A h \in Hosts : task[h] \notin {"connect", "run", "cmd", "stop", "exit"}

\* The set-up failed and ended the process; or every host was admitted
\* and its task finished, Read returned and main passed wg.Wait().
Terminated ==
  \/ mainpc = "fatal"
  \/ mainpc = "exit" /\ \A h \in Hosts : task[h] = "end" /\ Has(calls[h], "Connect")

\* C3: when every Connect and Run call made eventually returns, the run
\* ends, whatever the hosts' outcomes: every host is admitted, Read
\* returns and main passes wg.Wait().
C3_Terminates == (<>[]NoCallPending) => <>Terminated

\* The same, but for a run a panic ended.
C3_TerminatesUnlessPanic == (<>[]NoCallPending) => <>(Terminated \/ crashed)

\* C4: a host whose Connect or Run failed still releases its slot, its
\* failing step changes nothing of any other host, and at the end of the
\* run every host has been admitted, run and reported.
C4_Frame ==
  \A h, g \in Hosts :
    (h # g /\ task'[h] # task[h] /\ ret'[h] # Nil) =>
      /\ task'[g] = task[g] /\ ret'[g] = ret[g] /\ proc'[g] = proc[g]
      /\ msgs'[g] = msgs[g] /\ result'[g] = result[g] /\ dones'[g] = dones[g]
      /\ buf'[g] = buf[g] /\ pend'[g] = pend[g] /\ curStream'[g] = curStream[g]

C4_Released ==
  /\ \A h \in Hosts : task[h] = "end" => Has(calls[h], "release")
  /\ ~semClosed => sem + Cardinality({h \in Hosts : Holding(h)}) = primed
  /\ mainpc = "exit" =>
       \A g \in Hosts :
         /\ task[g] = "end" /\ proc[g] = "end" /\ result[g] = ret[g]
         /\ ~flagInterleave => \E i \in Blocks(g) : printed[i] = PrintBlock(IOResult(g))

C4_Isolation == [][C4_Frame]_vars /\ []C4_Released

C4_Witness ==
  /\ mainpc = "exit"
  /\ \E h, g \in Hosts : ret[h] # Nil /\ Has(calls[h], "release")
                         /\ ret[g] = Nil /\ Has(calls[g], "Exit")

\* C5: Regular collector: every host's process goroutine hands over one
\* record, and Read returns only after it has received as many records as
\* NewRemote registered hosts, one per host.
C5_OneRecordPerHost ==
  ~flagInterleave =>
    /\ Len(printed) = recvd /\ recvd <= count
    /\ \A h \in Hosts : Cardinality(Blocks(h)) = (IF proc[h] = "end" THEN 1 ELSE 0)
    /\ mainpc \in {"wait", "close", "exit"} =>
         /\ recvd = count /\ count = nhosts
         /\ \A h \in Hosts : proc[h] = "end"

C5_Witness == ~flagInterleave /\ nhosts = 2 /\ mainpc = "wait" /\ recvd = 2

\* C6: a command that exits with a status, zero or not, is a success: Run
\* sends one exit notice carrying the status and returns nil, Done gets
\* nil, and the host's block has no failure line.
C6_ExitIsSuccess ==
  \A h \in Hosts :
    (CmdRan(h) /\ cmdErr[h].kind \in {"nil", "ExitError"}) =>
      /\ ret[h] = Nil
      /\ Count(calls[h], "Exit") = 1
      /\ dones[h] # << >> => dones[h] = <<Nil>>
      /\ ~flagInterleave =>
           /\ Cardinality({i \in 1..Len(msgs[h]) : msgs[h][i].stream = -1}) = 1
           /\ Has(msgs[h], Exit(cmdErr[h].status))
           /\ \A i \in Blocks(h) :
                /\ printed[i].failed = << >>
                /\ Has(printed[i].body, Exit(cmdErr[h].status).data)

C6_Witness ==
  /\ ~flagInterleave
  /\ \E h \in Hosts : cmdErr[h] = ExitError(3) /\ Blocks(h) # {}

\* C7: when session.Run returns an error that is no exit status, Run
\* returns it, no exit notice is sent and Done gets the error.
C7_AbnormalIsError ==
  \A h \in Hosts :
    (CmdRan(h) /\ cmdErr[h].kind = "other") =>
      /\ ret[h] = "abnormal"
      /\ Count(calls[h], "Exit") = 0
      /\ dones[h] # << >> => dones[h] = <<"abnormal">>
      /\ ~flagInterleave => \A i \in 1..Len(msgs[h]) : msgs[h][i].stream # -1

C7_Witness == \E h \in Hosts : cmdErr[h].kind = "other" /\ dones[h] = <<"abnormal">>

\* C8: after a failed Connect the host's outcome is the connection error,
\* Run is never called, no event reaches its transcript, and its block is
\* empty but for the failure line.
C8_ConnectFailure ==
  \A h \in Hosts :
    ret[h] = "dial" =>
      /\ ~Has(calls[h], "Run") /\ ~Has(calls[h], "Close")
      /\ sesh[h].connection = Nil
      /\ Received(h) = 0 /\ msgs[h] = << >>
      /\ \A r \in Streams : relay[h][r] = "none"
      /\ dones[h] # << >> => dones[h] = <<"dial">>
      /\ ~flagInterleave =>
           \A i \in Blocks(h) :
             /\ printed[i].body = << >>
             /\ printed[i].failed = <<"==> Failed with ", "dial">>

C8_Witness == ~flagInterleave /\ \E h \in Hosts : ret[h] = "dial" /\ Blocks(h) # {}

\* C9: when the deadline passes while the command runs, the sub-session is
\* closed and session.Run returns an error, so the outcome is an error
\* without exit notice; when the command ends first, Run stops the timer
\* and the outcome is the command's exit status.
C9_Step ==
  \A h \in Hosts :
    /\ (timer[h] = "armed" /\ timer'[h] = "fired") => session'[h] = "closed"
    /\ (task[h] = "cmd" /\ task'[h] = "stop" /\ timer[h] = "fired")
         => cmdErr'[h].kind = "other"
    /\ (task[h] = "stop" /\ task'[h] # "stop" /\ timer[h] = "armed")
         => timer'[h] = "stopped"

C9_Outcome ==
  \A h \in Hosts :
    CmdRan(h) =>
      /\ timer[h] \in {"stopped", "fired"}
      /\ cmdErr[h].kind = "other" => (ret[h] = "abnormal" /\ Count(calls[h], "Exit") = 0)
      /\ cmdErr[h].kind # "other" => (ret[h] = Nil /\ Count(calls[h], "Exit") = 1)

C10_NoEventAfterDone ==
  [][\A h \in Hosts : dones[h] # << >> => Received(h)' = Received(h)]_vars

\* C10, amended: once Done has been signalled the host task sends no exit
\* notice (it was received before Done); the relay goroutines may still
\* send, and their events are received only while the host's process
\* goroutine is in its grace loop.
C10_Step ==
  \A h \in Hosts :
    /\ dones[h] # << >> =>
         (task'[h] # "exit" /\ Count(calls'[h], "Exit") = Count(calls[h], "Exit"))
    /\ proc[h] \notin {"wait", "grace"} => Received(h)' = Received(h)

C10_Amended == [][C10_Step]_vars

C10_Witness ==
  \E h \in Hosts : dones[h] # << >> /\ proc[h] = "grace" /\ relay[h]["out"] = "send"
\* Bytes, newlines apart, in a sequence of byte strings.
RECURSIVE Payload(_)
Payload(lines) ==
  IF lines = << >> THEN 0
  ELSE Cardinality({i \in 1..Len(Head(lines)) : Head(lines)[i] # NL}) + Payload(Tail(lines))

\* The lines of host h that Read printed or that its processor still holds.
LinesOf(h) ==
  [i \in 1..Len(SelectSeq(printed, LAMBDA x : x.host = h)) |->
     SelectSeq(printed, LAMBDA x : x.host = h)[i].line]
  \o [i \in 1..Len(pend[h]) |-> pend[h][i].line]
  \o <<buf[h]>>

\* Bytes the collector holds for host h: transcript or lines and buffer.
Held(h) ==
  IF flagInterleave THEN Payload(LinesOf(h))
  ELSE Payload([i \in 1..Len(msgs[h]) |-> msgs[h][i].data])

\* The relay events standing at their send for host h.
Offered(h) == {RelayMsg(r, chunk[h][r]) : r \in {x \in Streams : relay[h][x] = "send"}}

\* C11: an event a relay offers after Done and before the process
\* goroutine has taken the grace timer's value is received and kept (in
\* msgs, or handled by the interleaved processor), the timer is restarted
\* by it, and the goroutine leaves its grace loop only on a timer value
\* that no event followed.
C11_Step ==
  \A h \in Hosts :
    /\ (proc[h] = "grace" /\ Received(h)' > Received(h)) =>
         /\ \E m \in Offered(h) :
              /\ Held(h)' = Held(h) + Payload(<<m.data>>)
              /\ ~flagInterleave => msgs'[h] = Append(msgs[h], m)
         /\ proc'[h] = "grace"
         /\ gtimer'[h] = "reset"
    /\ (proc[h] = "grace" /\ proc'[h] # "grace") =>
         /\ gtimer[h] = "fired"
         /\ Received(h)' = Received(h)
    /\ (proc[h] = "grace" /\ gtimer[h] # "fired" /\ gtimer'[h] = "fired") =>
         Received(h)' = Received(h)

C11_GraceDrain == [][C11_Step]_vars

C11_Witness ==
  \E h \in Hosts : proc[h] = "grace" /\ gtimer[h] = "reset" /\ Held(h) > 0

\* What host h's events received so far amount to, in bytes.
Expected(h) ==
  nread[h]["out"] + nread[h]["err"] + 2 * Count(calls[h], "Exit")
  + (IF flagInterleave /\ proc[h] \in {"final", "end"} /\ result[h] # Nil THEN 2 ELSE 0)

\* C12: once a host's process goroutine has left its grace loop, an event
\* still offered for the host is never received: the transcript, the
\* processor's buffer and what was printed for the host stay as they are,
\* and the record holds the events received before, nothing else.
C12_Step ==
  \A h \in Hosts :
    proc[h] \in {"emit", "final", "end"} =>
      /\ Received(h)' = Received(h)
      /\ msgs'[h] = msgs[h] /\ buf'[h] = buf[h] /\ Held(h)' = Held(h)
      /\ relay'[h] = relay[h] /\ chunk'[h] = chunk[h]
      /\ \A i \in Blocks(h) : printed'[i] = printed[i]

C12_Kept ==
  \A h \in Hosts :
    /\ Held(h) = Expected(h)
    /\ (~flagInterleave /\ proc[h] = "end") =>
         \A i \in Blocks(h) : Len(printed[i].body) = Received(h)

C12_LateDropped == [][C12_Step]_vars /\ []C12_Kept

C12_Witness ==
  \E h \in Hosts : proc[h] = "end" /\ relay[h]["out"] = "send" /\ chunk[h]["out"] # << >>
\* The processor of host h as process() builds it.
FreshProcessor == [cur |-> -1, buf |-> << >>, lines |-> << >>]

\* handle() applied to a sequence of events, one after the other.
RECURSIVE Fold(_, _, _)
Fold(h, st, evs) == IF evs = << >> THEN st ELSE Fold(h, Handle(h, st, Head(evs)), Tail(evs))

\* The same bytes, with neighbouring events of one stream joined into one.
RECURSIVE Merge(_)
Merge(evs) ==
  IF Len(evs) < 2 THEN evs
  ELSE IF evs[1].stream = evs[2].stream
       THEN Merge(<<[data |-> evs[1].data \o evs[2].data, stream |-> evs[1].stream]>>
                  \o SubSeq(evs, 3, Len(evs)))
       ELSE <<evs[1]>> \o Merge(Tail(evs))

\* The processor of host 1, as the state holds it.
Processor1 == [cur |-> curStream[1], buf |-> buf[1], lines |-> pend[1]]

\* C13: the lines the interleaved processor has sent, and what it still
\* buffers, are those it would have sent had every run of same-stream
\* events come as one event: "a" then "a\n" on stdout gives the one line
\* "<host> [out]: aa".
C13_LineAtomic ==
  /\ Processor1 = Fold(1, FreshProcessor, Merge(SubSeq(feed, 1, fed)))
  /\ (fed = 2 /\ SubSeq(feed, 1, 2) = <<Stdout(<<"a">>), Stdout(<<"a", NL>>)>>) =>
       /\ pend[1] = <<[host |-> 1, tag |-> "out", line |-> <<"a", "a">>, stream |-> 1]>>
       /\ buf[1] = << >>

C13_Witness ==
  /\ fed = 2 /\ SubSeq(feed, 1, 2) = <<Stdout(<<"a">>), Stdout(<<"a", NL>>)>>
  /\ Len(pend[1]) = 1

\* C14: when the processor handles an event of another stream while it
\* buffers a partial line, the first line it sends is that partial line
\* under the old stream's tag; every later line of the step carries the
\* new stream's tag, and these lines and the buffer hold the new event's
\* bytes only.
C14_Step ==
  (fed' = fed + 1 /\ feed[fed + 1].stream # curStream[1] /\ buf[1] # << >>) =>
    LET m == feed[fed + 1]
        n == Len(pend[1])
        new == SubSeq(pend'[1], n + 2, Len(pend'[1]))
    IN /\ Len(pend'[1]) > n
       /\ SubSeq(pend'[1], 1, n) = pend[1]
       /\ pend'[1][n + 1] = [host |-> 1, tag |-> StreamTag(curStream[1]),
                             line |-> buf[1], stream |-> curStream[1]]
       /\ \A i \in 1..Len(new) :
            new[i].stream = m.stream /\ new[i].tag = StreamTag(m.stream)
       /\ Payload([i \in 1..Len(new) |-> new[i].line] \o <<buf'[1]>>) = Payload(<<m.data>>)

C14_SwitchFlush == [][C14_Step]_vars

C14_Witness ==
  /\ fed = 2 /\ feed[1] = Stdout(<<"a">>) /\ feed[2] = Stderr(<<"a", NL>>)
  /\ pend[1] = <<[host |-> 1, tag |-> "out", line |-> <<"a">>, stream |-> 1],
                 [host |-> 1, tag |-> "err", line |-> <<"a">>, stream |-> 2]>>
\* The bytes of the first k reads of the feed.
RECURSIVE Concat(_)
Concat(seqs) == IF seqs = << >> THEN << >> ELSE Head(seqs) \o Concat(Tail(seqs))

\* The reads made so far hold the marker, all of it within the first 64
\* bytes of stdout.
MarkerEarly ==
  \E k \in 1..fed : feed[k] = <<Marker>> /\ ByteLen(Concat(SubSeq(feed, 1, k))) <= 64

\* Every read made so far reached the transcript, unmodified and in order.
PassedThrough == msgs[1] = [i \in 1..fed |-> Stdout(feed[i])]

\* C15: once stdout has shown the marker within its first 64 bytes, the
\* credential and a carriage return were written to stdin exactly once,
\* scanning has stopped and every read was passed through.
C15_CredentialOnce ==
  MarkerEarly =>
    /\ ~crashed
    /\ wp[1].stdin = <<"pw", "\r", "close">>
    /\ ~wp[1].scanning
    /\ PassedThrough

\* C16: as long as stdout has not shown the marker within its first 64
\* bytes, getPassword is not called (no panic on the missing auth, no
\* credential on stdin) and every read was passed through.
C16_NoLateCredential ==
  ~MarkerEarly =>
    /\ ~crashed
    /\ ~Has(wp[1].stdin, "pw")
    /\ PassedThrough
\* Some caller has handed a request to run().
Requested == \E c \in Callers : pw.callers[c].pc \in {"receiving", "received"}
                                 \/ pw.callers[c].asks > 0

\* Prompted at most once and not before a request; every pair a caller
\* received is the one pair run() stored.
C17_Safe ==
  /\ pw.prompts <= 1
  /\ pw.prompts = 1 => Requested
  /\ \A c \in Callers : \A i \in 1..Len(pw.callers[c].got) :
       pw.callers[c].got[i] = pw.response

\* A caller inside getPassword.
Asking(c) == pw.callers[c].pc \in {"sending", "receiving", "received"}

\* C17: the user is prompted at most once, only after the first request
\* arrived; every caller gets the same cached password/error pair; once
\* the prompt has returned every caller inside getPassword returns.
C17_PromptOnce ==
  /\ []C17_Safe
  /\ \A c \in Callers : (pw.prompts = 1 /\ Asking(c)) ~> ~Asking(c)

\* Both callers asked twice, one prompt was made, four equal pairs returned.
C17_Witness ==
  /\ pw.prompts = 1
  /\ \A c \in Callers : pw.callers[c].asks = MaxAsk /\ Len(pw.callers[c].got) = MaxAsk
\* Where x stands in seq (0 when it does not).
Pos(seq, x) == IF Has(seq, x) THEN CHOOSE i \in 1..Len(seq) : seq[i] = x ELSE 0

\* Run was called for host h and the last call it made before returning
\* was mktemp or sendFiles.
StagingFailed(h) ==
  /\ Has(calls[h], "mktemp")
  /\ \A i \in 1..Len(RunSteps(cmd)) :
       RunSteps(cmd)[i] \notin {"mktemp", "sendFiles"} => ~Has(calls[h], RunSteps(cmd)[i])

\* The staging call that failed.
StagingError(h) == IF Has(calls[h], "sendFiles") THEN "sendFiles" ELSE "mktemp"

\* C18: when mktemp or sendFiles fails, Run returns that call's error (and
\* the task hands it to Done), session.Run is never called and no exit
\* notice is sent for the host.
C18_StagingFailure ==
  \A h \in Hosts : StagingFailed(h) =>
    /\ ret[h] = StagingError(h)
    /\ \A i \in 1..Len(dones[h]) : dones[h][i] = StagingError(h)
    /\ ~Has(calls[h], "session.Run")
    /\ ~Has(calls[h], "Exit")
    /\ \A i \in 1..Len(msgs[h]) : msgs[h][i] \notin {Exit(x) : x \in ExitCodes}

\* Host 1's transfer failed, the task reported it and ended.
C18_Witness ==
  /\ StagingFailed(1) /\ Has(calls[1], "sendFiles")
  /\ dones[1] = <<"sendFiles">> /\ task[1] = "end"

\* What Run returns, by the calls it made: nil after the exit notice, the
\* transport error after session.Run without one, else the error of the
\* last call made.
LastStep(h) ==
  LET made == {i \in 1..Len(RunSteps(cmd)) : Has(calls[h], RunSteps(cmd)[i])}
  IN RunSteps(cmd)[CHOOSE i \in made : \A j \in made : j <= i]
RunValue(h) ==
  IF Has(calls[h], "Exit") THEN Nil
  ELSE IF Has(calls[h], "session.Run") THEN "abnormal"
  ELSE LastStep(h)

\* C19: deltemp is called at most once and only after a successful
\* mktemp; when Run has returned after a successful mktemp it was called
\* exactly once, after every staging and command call and before Done and
\* the connection's Close; whatever deltemp returns, Run's value is the
\* one its other calls determine.
C19_Cleanup ==
  \A h \in Hosts :
    LET c == calls[h] IN
    /\ Count(c, "deltemp") <= 1
    /\ Has(c, "deltemp") => Has(c, "sendFiles")
    /\ (Returned(h) /\ Has(c, "sendFiles")) => Count(c, "deltemp") = 1
    /\ Has(c, "deltemp") =>
         /\ \A x \in {"mktemp", "sendFiles", "session.Run", "Exit", "session.Close"} :
              Pos(c, x) < Pos(c, "deltemp")
         /\ \A x \in {"Done", "Close"} : Has(c, x) => Pos(c, "deltemp") < Pos(c, x)
         /\ Returned(h) /\ ret[h] = RunValue(h)

\* The command exited, the removal failed, Run returned nil and the
\* connection was closed.
C19_Witness ==
  /\ Has(calls[1], "Exit") /\ Has(calls[1], "rm failed") /\ Has(calls[1], "Close")
  /\ ret[1] = Nil /\ dones[1] = <<Nil>>

\* The text session.Run was called with.
InvokedText(h) == calls[h][Pos(calls[h], "session.Run") + 1]

\* C20: with files, session.Run is called only after mktemp and sendFiles
\* were made and succeeded, with the command behind "cd <dir>; "; without
\* files no directory is made or removed and the command text is the one
\* given (inside sudo's wrapper under -sudo).
C20_InvokedInDir ==
  \A h \in Hosts : Has(calls[h], "session.Run") =>
    IF cmd.Files > 0
    THEN /\ 0 < Pos(calls[h], "mktemp")
         /\ Pos(calls[h], "mktemp") < Pos(calls[h], "sendFiles")
         /\ Pos(calls[h], "sendFiles") < Pos(calls[h], "session.Run")
         /\ InvokedText(h) = IF cmd.Sudo
                             THEN "/usr/bin/sudo /bin/bash -c 'cd /tmp/tmp.X; cmd'"
                             ELSE "cd /tmp/tmp.X; cmd"
    ELSE /\ ~Has(calls[h], "mktemp") /\ ~Has(calls[h], "sendFiles")
         /\ ~Has(calls[h], "deltemp")
         /\ InvokedText(h) = IF cmd.Sudo THEN "/usr/bin/sudo /bin/bash -c 'cmd'" ELSE "cmd"

\* A command with a file ran under sudo and its exit notice was sent.
C20_Witness ==
  /\ cmd.Files > 0 /\ cmd.Sudo
  /\ Has(calls[1], "session.Run") /\ Has(calls[1], "Exit")
\* runCommand for host h has gone past the point of the pty request: it
\* asked for the stdout pipe.
PastPty(h) == Has(calls[h], "StdoutPipe")

\* C21: RequestPty is called, on the opened sub-session, exactly when
\* -sudo or -pty is set; when it fails Run returns its error, to Done as
\* well, and session.Run is never called.
C21_PtyRequest ==
  \A h \in Hosts :
    /\ Has(calls[h], "RequestPty") =>
         /\ cmd.Sudo \/ cmd.Pty
         /\ 0 < Pos(calls[h], "NewSession")
         /\ Pos(calls[h], "NewSession") < Pos(calls[h], "RequestPty")
         /\ Count(calls[h], "RequestPty") = 1
    /\ (PastPty(h) /\ (cmd.Sudo \/ cmd.Pty)) =>
         /\ Has(calls[h], "RequestPty")
         /\ Pos(calls[h], "RequestPty") < Pos(calls[h], "StdoutPipe")
    /\ (Has(calls[h], "RequestPty") /\ ~PastPty(h)) =>
         /\ ret[h] = "RequestPty" /\ Returned(h)
         /\ ~Has(calls[h], "session.Run") /\ ~Has(calls[h], "Exit")
         /\ \A i \in 1..Len(dones[h]) : dones[h][i] = "RequestPty"

\* Under -sudo alone the pty was requested, the command invoked and the
\* task ended.
C21_Witness ==
  /\ cmd.Sudo /\ ~cmd.Pty
  /\ Has(calls[1], "RequestPty") /\ Has(calls[1], "session.Run")
  /\ task[1] = "end"
\* The calls of Run that arm and advertise agent forwarding and what
\* follows them, in the order the claim gives.
AgentOrder(h) ==
  /\ 0 < Pos(calls[h], "forwardAgent")
  /\ Pos(calls[h], "forwardAgent") < Pos(calls[h], "NewSession")
  /\ Pos(calls[h], "RequestAgentForwarding") = Pos(calls[h], "NewSession") + 1
  /\ Pos(calls[h], "RequestAgentForwarding") < Pos(calls[h], "session.Run")

\* C22: with -A, once Run was called for a host it either invoked the
\* command after forwardAgent, NewSession and RequestAgentForwarding, in
\* that order, or returned the error of the call that failed without
\* invoking it; the process is not ended by the call.
C22_AgentForwarding ==
  \A h \in Hosts :
    (cmd.ForwardAgent /\ Has(calls[h], "Run")) =>
      /\ ~crashed
      /\ \/ Has(calls[h], "session.Run") /\ AgentOrder(h)
         \/ /\ ~Has(calls[h], "session.Run") /\ Returned(h)
            /\ ret[h] = LastStep(h)
\* C23: when main stands at wg.Wait() every host task has already
\* registered itself (Read returned only after each host's Done, which
\* follows its wg.Add), so the counter covers every task that has not
\* finished; main goes past the barrier, closes sem and returns only when
\* every task has put its token back and called wg.Done: no task receives
\* from or sends on the closed channel, none holds a slot at exit.
C23_Barrier ==
  /\ mainpc \in {"wait", "close", "exit"} =>
       /\ \A h \in Hosts : task[h] \in {"release", "wgdone", "end"}
       /\ wg = Cardinality({h \in Hosts : task[h] # "end"})
  /\ (mainpc \in {"close", "exit"} \/ semClosed) =>
       /\ \A h \in Hosts : task[h] = "end" /\ ~Holding(h) /\ Has(calls[h], "release")
       /\ sem = flagParallel
       /\ ~crashed

\* Two hosts went through one slot, main closed the channel and returned.
C23_Witness ==
  /\ nhosts = 2 /\ flagParallel = 1
  /\ mainpc = "exit" /\ semClosed
  /\ \A h \in Hosts : task[h] = "end"
\* What Read printed for host h, in order.
PrintedOf(h) == SelectSeq(printed, LAMBDA x : x.host = h)

\* The records host h's processor has passed to send() so far: those of
\* handle() over the events it received and, once it left the grace loop,
\* of the failure message and the last flush.
Emitted(h) ==
  LET st == Fold(h, FreshProcessor, got[h]) IN
  IF proc[h] \in {"final", "end"}
  THEN Flush(h, IF result[h] # Nil THEN Handle(h, st, FailMsg(result[h])) ELSE st).lines
  ELSE st.lines

\* C24: under the interleaved collector every record a processor passed
\* to send() is printed, in order, or is the one its blocked send still
\* offers; Read's helper signals done, and Read returns, only when every
\* processor has finished, and by then every record was printed.
C24_ReadBarrier ==
  flagInterleave =>
    /\ \A h \in Hosts : PrintedOf(h) \o pend[h] = Emitted(h)
    /\ (reader # "idle" \/ mainpc \in {"wait", "close", "exit"}) =>
         /\ collwg = 0
         /\ \A h \in Hosts : proc[h] = "end" /\ pend[h] = << >> /\ PrintedOf(h) = Emitted(h)

\* Read returned after printing two lines or more for each of two hosts.
C24_Witness ==
  /\ flagInterleave /\ nhosts = 2 /\ mainpc = "wait"
  /\ \A h \in Hosts : Len(PrintedOf(h)) >= 2
\* The events host h's processor has handled: those received and, after
\* the grace loop, the failure message.
Handled(h) ==
  got[h] \o (IF proc[h] \in {"final", "end"} /\ result[h] # Nil
             THEN <<FailMsg(result[h])>> ELSE << >>)

\* The bytes, newlines apart, of the events of stream s handled for host h.
InBytes(h, s) ==
  LET evs == SelectSeq(Handled(h), LAMBDA m : m.stream = s)
  IN SelectSeq(Concat([i \in 1..Len(evs) |-> evs[i].data]), LAMBDA x : x # NL)

\* The bytes of the records of host h tagged for stream s, sent or waiting
\* to be, and of the buffer while it holds that stream.
OutBytes(h, s) ==
  LET recs == SelectSeq(PrintedOf(h) \o pend[h], LAMBDA r : r.stream = s)
  IN Concat([i \in 1..Len(recs) |-> recs[i].line])
     \o (IF curStream[h] = s THEN buf[h] ELSE << >>)

\* C25: under the interleaved collector every record sent or printed
\* belongs to one host, holds no newline, and carries the tag of its one
\* stream (out, err, ***); for every host and stream the records' bytes
\* are exactly the bytes of that host's events of that stream, so no
\* record holds bytes of another host's processor or of another stream.
C25_OneHostOneStream ==
  flagInterleave =>
    /\ \A i \in 1..Len(printed) :
         /\ printed[i].host \in Hosts
         /\ ~Has(printed[i].line, NL)
         /\ <<printed[i].stream, printed[i].tag>> \in {<<1, "out">>, <<2, "err">>, <<-1, "***">>}
    /\ \A h \in Hosts :
         /\ \A i \in 1..Len(pend[h]) :
              /\ pend[h][i].host = h /\ ~Has(pend[h][i].line, NL)
              /\ <<pend[h][i].stream, pend[h][i].tag>>
                   \in {<<1, "out">>, <<2, "err">>, <<-1, "***">>}
         /\ \A x \in {1, 2, -1} : OutBytes(h, x) = InBytes(h, x)
         /\ buf[h] # << >> => curStream[h] \in {1, 2, -1}

\* Two hosts' records alternate in what Read printed.
C25_Witness ==
  /\ flagInterleave /\ nhosts = 2 /\ Len(printed) >= 3
  /\ printed[1].host # printed[2].host /\ printed[1].host = printed[3].host
\* The block Read prints from a sequence of events and a terminal signal.
BlockOf(h, evs, sig) ==
  [host |-> h,
   body |-> [i \in 1..Len(evs) |-> evs[i].data],
   failed |-> IF sig # Nil THEN <<"==> Failed with ", sig>> ELSE << >>]

\* C26: under the batched collector the transcript of a host is the
\* sequence of events its process goroutine received, in that order, and
\* the block printed for it is determined by that sequence and the value
\* received on done: two hosts with the same events and signal get the
\* same body and failure line.
C26_Transcript ==
  ~flagInterleave =>
    /\ \A h \in Hosts :
         /\ msgs[h] = got[h]
         /\ \A i \in Blocks(h) : printed[i] = BlockOf(h, got[h], dones[h][1])
    /\ \A i, j \in 1..Len(printed) :
         (got[printed[i].host] = got[printed[j].host]
            /\ dones[printed[i].host] = dones[printed[j].host]) =>
           /\ printed[i].body = printed[j].body
           /\ printed[i].failed = printed[j].failed

\* A host's block holds its three events, the exit notice not the last.
C26_Witness ==
  /\ ~flagInterleave
  /\ \E i \in 1..Len(printed) :
       /\ Len(printed[i].body) = 3
       /\ printed[i].body[3] # Exit(0).data /\ printed[i].body[3] # Exit(3).data
\* The events of stream r that host h's consumer has received, in order.
Observed(h, r) ==
  SelectSeq(got[h], LAMBDA m : m.stream = (IF r = "out" THEN 1 ELSE 2))

\* C27: for every host and each relay, the events of that relay the
\* consumer has received are the relay's first chunks, each once and in
\* the order the relay read them; under the batched collector the
\* transcript holds them in that order too.
C27_ProducerOrder ==
  \A h \in Hosts : \A r \in Streams :
    /\ Len(Observed(h, r)) <= quota[r]
    /\ \A k \in 1..Len(Observed(h, r)) :
         Observed(h, r)[k] \in {RelayMsg(r, d) : d \in ChunkData(cmd, r, k - 1)}
    /\ relay[h][r] = "send" =>
         chunk[h][r] \in ChunkData(cmd, r, Len(Observed(h, r)))
    /\ ~flagInterleave =>
         SelectSeq(msgs[h], LAMBDA m : m.stream = (IF r = "out" THEN 1 ELSE 2))
           = Observed(h, r)

\* Two stdout chunks were received with a stderr chunk between them.
C27_Witness ==
  \E i, j, k \in 1..Len(got[1]) :
    /\ i < j /\ j < k
    /\ got[1][i] = Stdout(<<"a">>) /\ got[1][j].stream = 2 /\ got[1][k] = Stdout(<<"c">>)
\* C28: under the batched collector the block printed for a host has the
\* failure line, after the transcript, exactly when the value the host's
\* task passed to Done is an error, and the line carries that error; an
\* exit status other than zero is not an error.
C28_FailureLine ==
  ~flagInterleave =>
    \A h \in Hosts : \A i \in Blocks(h) :
      /\ Len(dones[h]) = 1
      /\ (printed[i].failed # << >>) <=> (dones[h][1] # Nil)
      /\ dones[h][1] # Nil => printed[i].failed = <<"==> Failed with ", dones[h][1]>>
      /\ Has(calls[h], "Exit") => printed[i].failed = << >>

\* Output arrived, session.Run failed, and the block ends with the
\* failure line.
C28_Witness ==
  /\ ~flagInterleave
  /\ \E i \in 1..Len(printed) :
       /\ printed[i].body # << >>
       /\ printed[i].failed = <<"==> Failed with ", "abnormal">>
\* The ***-tagged record carrying error e for host h.
FailRecord(h, e) ==
  [host |-> h, tag |-> "***", line |-> <<"Failed with ", e>>, stream |-> -1]

\* The record that flushes host h's buffer under the tag of its stream.
PartialRecord(h) ==
  [host |-> h,
   tag |-> CASE curStream[h] = 1 -> "out" [] curStream[h] = 2 -> "err" [] OTHER -> "***",
   line |-> buf[h], stream |-> curStream[h]]

\* The step that ends the grace loop of an interleaved processor: it
\* follows a timer value, flushes a pending partial line under its own
\* tag and then, for an error, sends the failure record.
C29_Step ==
  \A h \in Hosts :
    (flagInterleave /\ proc[h] = "grace" /\ proc'[h] # "grace") =>
      /\ gtimer[h] = "fired" /\ got'[h] = got[h]
      /\ buf'[h] = << >>
      /\ pend'[h] = (IF buf[h] # << >> THEN <<PartialRecord(h)>> ELSE << >>)
                    \o (IF dones[h][1] # Nil THEN <<FailRecord(h, dones[h][1])>> ELSE << >>)

\* A host's records hold the failure record only after its grace loop and
\* only for an error; then once, as the last record.
C29_Last ==
  \A h \in Hosts :
    LET recs == PrintedOf(h) \o pend[h]
        fails == {i \in 1..Len(recs) : recs[i].line # << >> /\ recs[i].line[1] = "Failed with "}
    IN flagInterleave =>
         IF proc[h] \in {"final", "end"} /\ dones[h][1] # Nil
         THEN /\ fails = {Len(recs)}
              /\ recs[Len(recs)] = FailRecord(h, dones[h][1])
         ELSE fails = {}

\* C29: under the interleaved collector one ***-tagged line with the
\* error text is emitted for a host exactly when the value received on its
\* done channel is an error; it is emitted when the grace loop has ended,
\* after the pending partial line was flushed under its own tag, and no
\* record of the host follows it.
C29_FailureRecord == [][C29_Step]_vars /\ []C29_Last

\* Read printed a flushed partial stdout line and then the failure record.
C29_Witness ==
  /\ flagInterleave /\ proc[1] = "end" /\ Len(PrintedOf(1)) >= 2
  /\ PrintedOf(1)[Len(PrintedOf(1))] = FailRecord(1, "abnormal")
  /\ PrintedOf(1)[Len(PrintedOf(1)) - 1].tag = "out"
\* Nothing of the per-host machinery exists: no RemoteIO and process
\* goroutine, no SSHSession, no host goroutine, no call made, no token.
NothingStarted ==
  /\ spawned = 0 /\ count = 0 /\ collwg = 0 /\ primed = 0 /\ sem = 0 /\ wg = 0
  /\ \A h \in AllHosts :
       /\ proc[h] = "none" /\ sesh[h] = NoSession
       /\ task[h] = "idle" /\ calls[h] = << >>

\* C30: until GetHosts and NewAuth have both returned without error
\* nothing per-host exists, and after an error of either nothing ever
\* does: main is at the set-up or ended by Fatalf.  With no host found no
\* RemoteIO, session or task is ever made, Read can return as soon as main
\* reaches it and wg.Wait() as well.
C30_SetupAbort ==
  /\ mainpc \in {"hosts", "auth", "fatal"} => NothingStarted
  /\ setupErr # Nil => mainpc \in {"hosts", "auth", "fatal"}
  /\ (setupErr = "GetHosts" /\ mainpc # "hosts") => mainpc = "fatal"
  /\ nhosts = 0 =>
       /\ spawned = 0 /\ count = 0 /\ collwg = 0 /\ wg = 0 /\ printed = << >>
       /\ \A h \in AllHosts : proc[h] = "none" /\ sesh[h] = NoSession /\ task[h] = "idle"
       /\ (mainpc = "read" /\ ~flagInterleave) => ENABLED RegularReadReturn
       /\ (mainpc = "read" /\ flagInterleave) => ENABLED (ReaderWait \/ InterleavedReadReturn)
       /\ mainpc = "wait" => ENABLED WgWait

\* Two hosts were found, NewAuth failed and ended the process.
C30_Witness == nhosts = 2 /\ setupErr = "NewAuth" /\ mainpc = "fatal"
\* C31: a task whose Connect succeeded calls Run, then Done, then Close,
\* then releases its slot; Close is called once for it, leaving no
\* connection, and is never called by a task whose Connect failed.
C31_TaskOrder ==
  \A h \in Hosts :
    LET c == calls[h] IN
    /\ Count(c, "Close") <= 1 /\ Count(c, "Run") <= 1 /\ Count(c, "release") <= 1
    /\ Has(c, "Run") => (ret[h] # "dial" /\ Pos(c, "Connect") < Pos(c, "Run"))
    /\ ret[h] = "dial" => ~Has(c, "Close")
    /\ Has(c, "Close") =>
         /\ 0 < Pos(c, "Run") /\ Pos(c, "Run") < Pos(c, "Done")
         /\ Pos(c, "Close") = Pos(c, "Done") + 1
         /\ sesh[h].connection = Nil
    /\ (Has(c, "Done") /\ Has(c, "Run")) => Has(c, "Close")
    /\ Has(c, "release") =>
         /\ Pos(c, "Done") < Pos(c, "release")
         /\ Has(c, "Close") => Pos(c, "Close") < Pos(c, "release")

\* One host went through Run, Done, Close and the release; the other's
\* Connect failed and it released its slot without a Close.
C31_Witness ==
  /\ nhosts = 2
  /\ Has(calls[1], "Close") /\ task[1] = "end"
  /\ ret[2] = "dial" /\ task[2] = "end"
\* C32: the tokens in sem plus the tasks holding a slot equal the tokens
\* primed so far, which never exceed the parallelism; hence the buffer has
\* room whenever main is about to prime a token or a task is about to
\* release its slot: neither send blocks.
C32_Pool ==
  /\ sem + Cardinality({h \in Hosts : Holding(h)}) = primed
  /\ primed <= flagParallel /\ sem <= SemCap
  /\ (Alive /\ mainpc = "prime") => ENABLED Prime
  /\ \A h \in Hosts : (Alive /\ task[h] = "release") => ENABLED Release(h)

\* Both slots are primed, one task holds a slot and is about to release it
\* while the other token lies in the pool.
C32_Witness ==
  /\ flagParallel = 2 /\ primed = 2 /\ sem = 1
  /\ \E h \in Hosts : task[h] = "release"
\* C33: when the command is invoked, the goroutine reading its stdout
\* (io.Copy, or writePass under sudo) and the one reading its stderr were
\* already started, each exactly once, and while the command runs neither
\* stream is without its reader.
C33_ReadersFirst ==
  \A h \in Hosts :
    LET c == calls[h]
        out == IF cmd.Sudo THEN "go writePass" ELSE "go io.Copy stdout"
        other == IF cmd.Sudo THEN "go io.Copy stdout" ELSE "go writePass" IN
    /\ Has(c, "session.Run") =>
         /\ Count(c, out) = 1 /\ Count(c, "go io.Copy stderr") = 1
         /\ ~Has(c, other)
         /\ Pos(c, out) < Pos(c, "session.Run")
         /\ Pos(c, "go io.Copy stderr") < Pos(c, "session.Run")
    /\ task[h] = "cmd" =>
         /\ Has(c, "session.Run")
         /\ \A r \in Streams : relay[h][r] # "none"

\* A command under sudo is running: writePass and the stderr relay were
\* started before it.
C33_Witness ==
  /\ cmd.Sudo /\ task[1] = "cmd"
  /\ Has(calls[1], "go writePass") /\ Has(calls[1], "session.Run")
\* What is left in the buffer after handle() went over the events evs of
\* host h, as the record that carries it: tagged with the stream it came
\* from.
Residue(h, evs) ==
  LET st == Fold(h, FreshProcessor, evs) IN
  IF st.buf = << >> THEN << >>
  ELSE <<[host |-> h, tag |-> StreamTag(st.cur), line |-> st.buf, stream |-> st.cur]>>

\* C34: interleaved strategy: when a host's processor has reported
\* completion, everything printed for the host is the lines handle() made
\* of the events received up to the end of the grace loop, then once the
\* partial line left in the buffer under the tag of its stream, then the
\* failure line for a non-nil result; nothing is left in the buffer.
C34_PartialLine ==
  \A h \in Hosts :
    (flagInterleave /\ proc[h] = "end") =>
      /\ buf[h] = << >> /\ pend[h] = << >>
      /\ PrintedOf(h) = Fold(h, FreshProcessor, got[h]).lines
                        \o Residue(h, got[h])
                        \o (IF dones[h][1] # Nil
                            THEN <<FailRecord(h, dones[h][1])>> ELSE << >>)

\* A host's last event was stdout bytes without a newline, its result was
\* nil, and the last record printed for it is that partial line.
C34_Witness ==
  /\ flagInterleave /\ proc[1] = "end" /\ dones[1] = <<Nil>>
  /\ got[1] # << >> /\ got[1][Len(got[1])].stream = 1
  /\ Residue(1, got[1]) # << >>
  /\ PrintedOf(1) # << >>
  /\ PrintedOf(1)[Len(PrintedOf(1))] = Residue(1, got[1])[1]
\* C36: every SSHSession made for a host carries the Auth it was made
\* with, and no run panics where the Auth is used (forwardAgent,
\* getPassword).
C36_AuthCarried ==
  /\ \A h \in Hosts : sesh[h] # NoSession => sesh[h].auth # Nil
  /\ ~crashed
\* C37: whenever a host task stands at remote.Done, the host's process
\* goroutine can receive it at once, whatever Read has or has not consumed;
\* and as long as the program has not ended some step can be taken:
\* admission and draining never block each other.
C37_DoneAccepted ==
  /\ \A h \in Hosts : (Alive /\ task[h] = "done") => ENABLED RecvDone(h)
  /\ Alive => ENABLED Next
\* The exit notices among the events host h's consumer received.
Notices(h) == SelectSeq(got[h], LAMBDA m : m.stream = -1)

\* C38: a host's exit notice is received while its consumer still waits
\* for the terminal signal, never in the grace loop; there is at most one
\* per host, and once the signal of a host whose command exited with a
\* status has been received the notice with that status is among the
\* received events: it is in the batched transcript and in the printed
\* block, or printed as a "***" line by the interleaved processor.
C38_Step ==
  \A h \in Hosts :
    Len(Notices(h))' > Len(Notices(h)) =>
      /\ proc[h] = "wait" /\ dones[h] = << >> /\ gtimer[h] = "off"
      /\ task[h] = "exit" /\ task'[h] = "done"
      /\ got'[h] = Append(got[h], Exit(cmdErr[h].status))

C38_Inv ==
  \A h \in Hosts :
    /\ Len(Notices(h)) <= 1
    /\ Len(Notices(h)) = Count(calls[h], "Exit")
    /\ (CmdRan(h) /\ cmdErr[h].kind \in {"nil", "ExitError"}) =>
         /\ Notices(h) = <<Exit(cmdErr[h].status)>>
         /\ ~flagInterleave =>
              \A i \in Blocks(h) : Has(printed[i].body, Exit(cmdErr[h].status).data)
         /\ (flagInterleave /\ proc[h] = "end") =>
              Has(PrintedOf(h), FormatLine(h, -1, <<"Exited with code: ",
                                                    CodeStr(cmdErr[h].status)>>))

C38_ExitNotice == [][C38_Step]_vars /\ []C38_Inv

\* An interleaved host whose command exited with status 3 is done and its
\* "***" line was printed; the stream relays had delivered nothing before
\* the signal.
C38_Witness ==
  /\ flagInterleave /\ proc[1] = "end" /\ cmdErr[1] = ExitError(3)
  /\ Has(PrintedOf(1), FormatLine(1, -1, <<"Exited with code: ", "3">>))
  /\ got[1][1].stream = -1
\* A relay goroutine of host h stands at its send on remote.collector
\* after the host's process goroutine left the grace loop.
Stuck(h, r) == relay[h][r] = "send" /\ proc[h] \in {"emit", "final", "end"}

\* Every task has returned, every host's record was delivered, Read has
\* returned and main is past wg.Wait() and close(sem).
AllDone ==
  /\ mainpc = "exit" /\ wg = 0
  /\ \A h \in Hosts : task[h] = "end" /\ proc[h] = "end" /\ pend[h] = << >>

\* C39: a relay goroutine that stands at its send after the grace loop of
\* its host stays there for ever with the same event, and still every
\* task releases its slot, every record is delivered, Read returns and
\* main passes its barrier.
C39_StuckStep ==
  \A h \in Hosts : \A r \in Streams :
    Stuck(h, r) => (Stuck(h, r)' /\ chunk'[h][r] = chunk[h][r] /\ got'[h] = got[h])

C39_NoDelay ==
  \A h \in Hosts :
    (Alive /\ \E r \in Streams : Stuck(h, r)) =>
      /\ task[h] = "release" => ENABLED Release(h)
      /\ task[h] = "wgdone" => ENABLED WgDone(h)
      /\ ENABLED Next

C39_StuckRelay ==
  /\ [][C39_StuckStep]_vars
  /\ []C39_NoDelay
  /\ (\E h \in Hosts : \E r \in Streams : Stuck(h, r)) ~> AllDone

\* The run of two hosts is over and a stdout relay of the first still
\* stands at its send.
C39_Witness ==
  /\ nhosts = 2 /\ AllDone /\ Stuck(1, "out") /\ chunk[1]["out"] # << >>
\* What the receiver is to get for file f: the header with the permission
\* bits in octal, the length and the last path element, the contents, NUL.
WireOf(f) ==
  <<"C" \o Octal4(f.mode % 512) \o " " \o Dec(Len(f.data)) \o " "
        \o f.path[Len(f.path)] \o NL>>
  \o f.data \o <<Nul>>

Wire(files) == Concat([i \in 1..Len(files) |-> WireOf(files[i])])

\* What the sender has written of the file it is at.
WireAt(f, pc) ==
  CASE pc = "copy" -> SubSeq(WireOf(f), 1, 1)
    [] pc = "nul" -> SubSeq(WireOf(f), 1, 1 + Len(f.data))
    [] OTHER -> << >>

IsPrefix(a, b) == Len(a) <= Len(b) /\ a = SubSeq(b, 1, Len(a))

\* C35: what the sender goroutine writes to the sub-session's stdin is,
\* for each file in list order, its header, its bytes and one NUL; only
\* files that open are sent; stdin is closed exactly when the goroutine
\* ends, which is after the last file, or at the first file that cannot be
\* opened, after the files before it were written in full.
C35_Protocol ==
  sf.sender # "none" =>
    LET want == Wire(SubSeq(feed, 1, fed))
                \o (IF fed < Len(feed) THEN WireAt(feed[fed + 1], sf.sender) ELSE << >>) IN
    /\ \A k \in 1..fed : feed[k].err = Nil
    /\ IsPrefix(sf.stdin, want)
    /\ (sf.remote = "running" \/ sf.err = Nil) => sf.stdin = want
    /\ sf.closed <=> sf.sender = "end"
    /\ sf.sender = "end" =>
         /\ fed = Len(feed) \/ feed[fed + 1].err # Nil
         /\ (\A k \in 1..Len(feed) : feed[k].err = Nil) => fed = Len(feed)
         /\ (sf.remote = "running" \/ sf.err = Nil) => sf.stdin = Wire(SubSeq(feed, 1, fed))

\* Two readable files were sent, dir/f.sh with mode 04755 and two bytes,
\* then the empty g with mode 0644, and stdin was closed.
C35_Witness ==
  /\ Len(feed) = 2 /\ fed = 2 /\ sf.closed /\ sf.sender = "end"
  /\ sf.stdin = <<"C0755 2 f.sh\n", "x", "y", Nul, "C0644 0 g\n", Nul>>
\* The error of the first file of the list that cannot be opened, or nil.
RECURSIVE FirstErr(_)
FirstErr(files) ==
  IF files = << >> THEN Nil
  ELSE IF Head(files).err # Nil THEN Head(files).err ELSE FirstErr(Tail(files))

\* C40: once the sender goroutine was started it sends one value on the
\* result channel, never blocked at the send, and closes stdin on each of
\* its ways out; sendFiles returns the remote receiver's error when there
\* is one and the sender's otherwise; and once the receiver has exited
\* sendFiles returns.
C40_Safe ==
  /\ sf.sends <= 1 /\ Len(sf.result) <= 1
  /\ sf.sender = "open" => ENABLED (SendOpen \/ SendEnd)
  /\ sf.sender = "end" => (sf.sends = 1 /\ sf.closed)
  /\ sf.resultClosed => (sf.sender = "end" /\ sf.result = << >>)
  /\ (sf.pc = "returned" /\ sf.sender # "none") =>
       /\ sf.sendErr = FirstErr(feed)
       /\ sf.ret = (IF sf.err # Nil THEN sf.err ELSE FirstErr(feed))
       /\ sf.sessionClosed /\ sf.remote = "exited"

C40_Returns == []C40_Safe /\ ((sf.remote = "exited") ~> (sf.pc = "returned"))

\* The receiver exited without error, the second file could not be
\* opened, and sendFiles returned the sender's error.
C40_Witness ==
  /\ sf.pc = "returned" /\ sf.err = Nil /\ sf.ret = "open" /\ fed = 1
====
